---- MODULE Spec2Model ----
(***************************************************************************)
(* A model of the value-pairs projection of syslog-ng (lib/value-pairs.c): *)
(* the builder calls that configure a ValuePairs object and the           *)
(* evaluation value_pairs_foreach_sorted(), which builds a sorted tree of  *)
(* (key, hinted value) in seven phases and runs it through a callback.     *)
(*                                                                         *)
(* Names and keys are sequences of one-character strings, so that strcmp,  *)
(* glob matching and the key transforms work on characters as the C code   *)
(* does.  Values are strings; only their length and identity matter.       *)
(***************************************************************************)
EXTENDS Integers, Sequences, FiniteSets, TLC

VARIABLES
  vp,            \* the ValuePairs object: scopes, patterns, vpairs, transforms
  ncalls,        \* number of builder calls made so far (bounded by MaxCalls)
  pc,            \* position inside value_pairs_foreach_sorted, "idle" outside
  msg,           \* the LogMessage under evaluation
  compare_func,  \* comparator given to g_tree_new_full
  scope_set,     \* the GTree, as the sequence of its nodes in comparator order
  idx,           \* g_tree_foreach position (index of the next node)
  result,        \* the running success accumulator of value_pairs_foreach_sorted
  retval,        \* value returned by the last finished call, "none" before
  delivered,     \* history: the callback invocations of the running call
  log,           \* history: the g_tree_insert calls of the running call
  sbuf,          \* the scratch buffers of the running call: how many were
                 \* acquired, which the tree holds, and the releases in order
  walk,          \* value_pairs_walk: the vp_walk_state_t stack and the history
                 \* of the consumer callbacks it made
  prev,          \* history: the evaluations finished so far on this object
  refs,          \* the holders of the object and the value_pairs_free calls
  scope_log,     \* history: the value_pairs_add_scope calls and their results
  cmd,           \* value_pairs_new_from_cmdline: the parser's user_data_args,
                 \* its position and the TransformSets it created
  tok,           \* vp_walker_split_name_to_tokens: a name and its tokens
  dd,            \* the program destination driver (AFProgramDestDriver), its
                 \* children, the reload store and the history of its calls
  sd             \* the program source driver (AFProgramSourceDriver), its
                 \* children and the history of its calls

vars == <<vp, ncalls, pc, msg, compare_func, scope_set, idx, result, retval,
          delivered, log, sbuf, walk, prev, refs, scope_log, cmd, tok, dd, sd>>

\* the state outside the builder calls and value_pairs_foreach_sorted
otherVars == <<walk, prev, refs, scope_log, cmd, tok, dd, sd>>

-----------------------------------------------------------------------------
(* Bounds *)

\* total number of builder calls (add_scope, add_glob_pattern, add_pair,
\* add_transforms) on one ValuePairs object
MaxCalls == 2

-----------------------------------------------------------------------------
(* Characters and strcmp *)

Upper == <<"A","B","C","D","E","F","G","H","I","J","K","L","M",
           "N","O","P","Q","R","S","T","U","V","W","X","Y","Z">>
Lower == <<"a","b","c","d","e","f","g","h","i","j","k","l","m",
           "n","o","p","q","r","s","t","u","v","w","x","y","z">>
Digits == <<"0","1","2","3","4","5","6","7","8","9">>

IndexOf(seq, c) == CHOOSE i \in 1..Len(seq) : seq[i] = c
InSeq(seq, c) == \E i \in 1..Len(seq) : seq[i] = c

\* the ASCII code of a character
Code(c) ==
  IF InSeq(Upper, c) THEN 64 + IndexOf(Upper, c)
  ELSE IF InSeq(Lower, c) THEN 96 + IndexOf(Lower, c)
  ELSE IF InSeq(Digits, c) THEN 47 + IndexOf(Digits, c)
  ELSE IF c = "*" THEN 42
  ELSE IF c = "-" THEN 45
  ELSE IF c = "." THEN 46
  ELSE IF c = "=" THEN 61
  ELSE IF c = "?" THEN 63
  ELSE IF c = "@" THEN 64
  ELSE 95  \* "_"

Chars == {Upper[i] : i \in 1..Len(Upper)} \cup {Lower[i] : i \in 1..Len(Lower)}
         \cup {Digits[i] : i \in 1..Len(Digits)}
         \cup {"*", "-", ".", "=", "?", "@", "_"}
CodeTable == [c \in Chars |-> Code(c)]

\* a character as strcmp reads it, an unsigned char
Ord(c) == CodeTable[c]

Min(a, b) == IF a < b THEN a ELSE b

\* strcmp(3): the sign of the first differing byte, the shorter string first
strcmp(s1, s2) ==
  LET n == Min(Len(s1), Len(s2))
      diff == {i \in 1..n : s1[i] # s2[i]}
  IN IF diff # {}
       THEN LET d == CHOOSE i \in diff : \A j \in diff : i <= j
            IN IF Ord(s1[d]) < Ord(s2[d]) THEN -1 ELSE 1
       ELSE IF Len(s1) < Len(s2) THEN -1
       ELSE IF Len(s1) > Len(s2) THEN 1
       ELSE 0

\* variant: the walker's comparator without the inversion
vp_walk_cmp_ascending(s1, s2) == strcmp(s1, s2)

\* vp_walk_cmp: strcmp with the arguments swapped
vp_walk_cmp(s1, s2) == strcmp(s2, s1)

\* the GCompareDataFunc handed to the tree
Compare(cmp, a, b) == IF cmp = "strcmp" THEN strcmp(a, b) ELSE vp_walk_cmp(a, b)

-----------------------------------------------------------------------------
(* Scope bits *)

VPS_NV_PAIRS == 1
VPS_DOT_NV_PAIRS == 2
VPS_RFC3164 == 4
VPS_RFC5424 == 8
VPS_ALL_MACROS == 16
VPS_SELECTED_MACROS == 32
VPS_SDATA == 64
VPS_EVERYTHING == 127

ScopeBits == {VPS_NV_PAIRS, VPS_DOT_NV_PAIRS, VPS_RFC3164, VPS_RFC5424,
              VPS_ALL_MACROS, VPS_SELECTED_MACROS, VPS_SDATA}

RECURSIVE SumSet(_)
SumSet(S) == IF S = {} THEN 0
             ELSE LET x == CHOOSE y \in S : TRUE IN x + SumSet(S \ {x})

\* the bits set in a guint32 mask (only bits 0..6 are ever used), tabulated
BitsTable == [m \in 0..VPS_EVERYTHING |-> {b \in ScopeBits : (m \div b) % 2 = 1}]
BitsOf(m) == BitsTable[m]
Bit(m, b) == IF b \in BitsTable[m] THEN b ELSE 0

\* a & b and a | b on masks
BitAnd(a, b) ==
  LET both(x) == IF Bit(a, x) # 0 /\ Bit(b, x) # 0 THEN x ELSE 0
  IN both(1) + both(2) + both(4) + both(8) + both(16) + both(32) + both(64)
BitOr(a, b) ==
  LET any(x) == IF Bit(a, x) # 0 \/ Bit(b, x) # 0 THEN x ELSE 0
  IN any(1) + any(2) + any(4) + any(8) + any(16) + any(32) + any(64)

\* value_pair_scope[]: the flag table of value_pairs_add_scope
value_pair_scope ==
  [ name \in {"nv-pairs", "dot-nv-pairs", "all-nv-pairs", "rfc3164", "core",
              "base", "rfc5424", "syslog-proto", "all-macros",
              "selected-macros", "sdata", "everything"} |->
      CASE name = "nv-pairs" -> VPS_NV_PAIRS
        [] name = "dot-nv-pairs" -> VPS_DOT_NV_PAIRS
        [] name = "all-nv-pairs" -> BitOr(VPS_NV_PAIRS, VPS_DOT_NV_PAIRS)
        [] name \in {"rfc3164", "core", "base"} -> VPS_RFC3164
        [] name \in {"rfc5424", "syslog-proto"} -> VPS_RFC5424
        [] name = "all-macros" -> VPS_ALL_MACROS
        [] name = "selected-macros" -> VPS_SELECTED_MACROS
        [] name = "sdata" -> VPS_SDATA
        [] OTHER -> VPS_EVERYTHING ]

\* cfg_process_flag with CFH_SET handlers: a known flag ORs its bits into the
\* field and reports TRUE, an unknown one leaves the field and reports FALSE
cfg_process_flag(handlers, scopes, flag) ==
  IF flag \in DOMAIN handlers
    THEN [ok |-> TRUE, scopes |-> BitOr(scopes, handlers[flag])]
    ELSE [ok |-> FALSE, scopes |-> scopes]

-----------------------------------------------------------------------------
(* Names *)

FACILITY == <<"F","A","C","I","L","I","T","Y">>
PRIORITY == <<"P","R","I","O","R","I","T","Y">>
HOST == <<"H","O","S","T">>
PROGRAM == <<"P","R","O","G","R","A","M">>
PID == <<"P","I","D">>
MESSAGE == <<"M","E","S","S","A","G","E">>
DATE == <<"D","A","T","E">>
MSGID == <<"M","S","G","I","D">>
TAGS == <<"T","A","G","S">>
SOURCEIP == <<"S","O","U","R","C","E","I","P">>
SEQNUM == <<"S","E","Q","N","U","M">>
YEAR == <<"Y","E","A","R">>

\* the names of the static ValuePairSpec tables
rfc3164_names == <<FACILITY, PRIORITY, HOST, PROGRAM, PID, MESSAGE, DATE>>
rfc5424_names == <<MSGID>>
selected_macros_names == <<TAGS, SOURCEIP, SEQNUM>>

\* the macro registry (macros[] of template/macros.c), in table order
macros == <<FACILITY, PRIORITY, DATE, YEAR, HOST, TAGS, SOURCEIP, SEQNUM,
            MESSAGE>>

\* log_macro_lookup: is the name a built-in macro
log_macro_lookup(name) == InSeq(macros, name)

\* value_pairs_init_set: every entry resolves to a macro, else to a message value
value_pairs_init_set(set) ==
  [i \in 1..Len(set) |->
     [name |-> set[i],
      type |-> IF log_macro_lookup(set[i]) THEN "VPT_MACRO" ELSE "VPT_NVPAIR"]]

\* the static tables after value_pairs_new has initialised them
rfc3164 == value_pairs_init_set(rfc3164_names)
rfc5424 == value_pairs_init_set(rfc5424_names)
selected_macros == value_pairs_init_set(selected_macros_names)

\* all_macros as value_pairs_new builds it: one VPT_MACRO entry per macro
all_macros == [i \in 1..Len(macros) |-> [name |-> macros[i], type |-> "VPT_MACRO"]]

-----------------------------------------------------------------------------
(* Glob patterns *)

\* g_pattern_match_string: '*' matches any run of characters, '?' exactly one
RECURSIVE GlobMatch(_, _)
GlobMatch(p, s) ==
  IF p = <<>> THEN s = <<>>
  ELSE IF Head(p) = "*"
    THEN GlobMatch(Tail(p), s) \/ (s # <<>> /\ GlobMatch(p, Tail(s)))
  ELSE IF s = <<>> THEN FALSE
  ELSE IF Head(p) = "?" THEN GlobMatch(Tail(p), Tail(s))
  ELSE Head(p) = Head(s) /\ GlobMatch(Tail(p), Tail(s))

vp_pattern_spec_eval(self, input) == GlobMatch(self.pattern, input)

vp_pattern_spec_new(pattern, include) == [pattern |-> pattern, include |-> include]

\* variant: the loop stops at the first matching pattern
RECURSIVE PatternLoop_first_match(_, _, _, _)
PatternLoop_first_match(patterns, name, inc, j) ==
  IF j > Len(patterns) THEN inc
  ELSE IF vp_pattern_spec_eval(patterns[j], name) THEN patterns[j].include
  ELSE PatternLoop_first_match(patterns, name, inc, j + 1)

\* the loop shared by vp_msg_nvpairs_foreach and vp_find_in_set: every
\* matching pattern, in list order, overwrites the inclusion flag
RECURSIVE PatternLoop(_, _, _, _)
PatternLoop(patterns, name, inc, j) ==
  IF j > Len(patterns) THEN inc
  ELSE PatternLoop(patterns, name,
                   IF vp_pattern_spec_eval(patterns[j], name)
                     THEN patterns[j].include ELSE inc,
                   j + 1)

vp_find_in_set(v, name, exclude) == PatternLoop(v.patterns, name, exclude, 1)

-----------------------------------------------------------------------------
(* Key transforms *)

Drop(s, n) == IF n >= Len(s) THEN <<>> ELSE SubSeq(s, n + 1, Len(s))
HasPrefix(s, p) == Len(p) <= Len(s) /\ SubSeq(s, 1, Len(p)) = p

\* one transform step: shift, add-prefix or replace-prefix
vp_transform_step(f, key) ==
  CASE f.type = "shift" -> Drop(key, f.amount)
    [] f.type = "add_prefix" -> f.prefix \o key
    [] OTHER -> IF HasPrefix(key, f.old) THEN f.new \o Drop(key, Len(f.old))
                ELSE key

\* value_pairs_transform_set_apply: the steps of one set, in order
RECURSIVE value_pairs_transform_set_apply(_, _)
value_pairs_transform_set_apply(funcs, key) ==
  IF funcs = <<>> THEN key
  ELSE value_pairs_transform_set_apply(Tail(funcs), vp_transform_step(Head(funcs), key))

\* variant: the loop of vp_transform_apply leaving after the first set
TransformLoop_first(l, okey) ==
  IF l = <<>> THEN okey
  ELSE value_pairs_transform_set_apply(Head(l).funcs, okey)

\* vp_transform_apply: every set of the list, each on the result of the last
RECURSIVE TransformLoop(_, _)
TransformLoop(l, okey) ==
  IF l = <<>> THEN okey
  ELSE TransformLoop(Tail(l), value_pairs_transform_set_apply(Head(l).funcs, okey))

vp_transform_apply(v, key) == TransformLoop(v.transforms, key)

-----------------------------------------------------------------------------
(* Messages and templates *)

\* log_msg_get_value: the value stored under a name, empty when unset
RECURSIVE NvLookup(_, _)
NvLookup(nv, name) ==
  IF nv = <<>> THEN ""
  ELSE IF Head(nv).name = name THEN Head(nv).value
  ELSE NvLookup(Tail(nv), name)

log_msg_get_value(m, name) == NvLookup(m.nv, name)

\* log_macro_expand: the rendering of a macro for the message
log_macro_expand(m, name) == m.macros[name]

\* log_template_append_format: a literal, or the value of a message field
log_template_append_format(template, m) ==
  IF template.kind = "literal" THEN template.arg
  ELSE log_msg_get_value(m, template.arg)

TypeHints == {"TYPE_HINT_STRING", "TYPE_HINT_INT32"}

-----------------------------------------------------------------------------
(* The tree *)

\* g_tree_insert on a tree kept as its in-order node sequence: a key that
\* compares equal to a node gets its value replaced, a new key is linked in
\* at its place in comparator order
g_tree_insert(tree, cmp, key, value) ==
  LET same == {i \in 1..Len(tree) : Compare(cmp, key, tree[i].key) = 0}
      before == Cardinality({i \in 1..Len(tree) : Compare(cmp, key, tree[i].key) > 0})
      node == [key |-> key, type_hint |-> value.type_hint, str |-> value.str]
  IN IF same # {}
       THEN [i \in 1..Len(tree) |-> IF i \in same THEN node ELSE tree[i]]
       ELSE SubSeq(tree, 1, before) \o <<node>> \o SubSeq(tree, before + 1, Len(tree))

\* no scratch buffer acquired: acq counts the sb_th_gstring_acquire calls
\* (the n-th buffer acquired is buffer n), own gives the buffer held by the
\* node of a key, rel lists the buffers released, in order
NoSb == [acq |-> 0, own |-> <<>>, rel |-> <<>>]

\* sb_th_gstring_acquire followed by sb_th_gstring_release of that buffer
AcquireRelease(sb) == [sb EXCEPT !.acq = @ + 1, !.rel = Append(@, sb.acq + 1)]

\* sb_th_gstring_acquire followed by g_tree_insert of the buffer: the value
\* a node of that key held is given to vp_data_free, which releases it
AcquireInsert(sb, cmp, key) ==
  LET id == sb.acq + 1
      same == {k \in DOMAIN sb.own : Compare(cmp, key, k) = 0}
      dom == IF same = {} THEN DOMAIN sb.own \cup {key} ELSE DOMAIN sb.own
  IN [acq |-> id,
      own |-> [k \in dom |-> IF k \in same \/ k = key THEN id ELSE sb.own[k]],
      rel |-> IF same = {} THEN sb.rel
              ELSE Append(sb.rel, sb.own[CHOOSE k \in same : TRUE])]

\* g_tree_destroy: vp_data_free on the value of every node, in order
g_tree_destroy(tree, sb) ==
  [sb EXCEPT !.own = <<>>,
             !.rel = @ \o [i \in 1..Len(tree) |-> sb.own[tree[i].key]]]

\* an insertion together with its record in the history
Insert(st, cmp, phase, name, key, value) ==
  [tree |-> g_tree_insert(st.tree, cmp, key, value),
   log |-> Append(st.log, [phase |-> phase, name |-> name, key |-> key,
                           value |-> value.str]),
   sb |-> AcquireInsert(st.sb, cmp, key)]

-----------------------------------------------------------------------------
(* Building the tree: the phases of value_pairs_foreach_sorted *)

\* variant: vp_msg_nvpairs_foreach without the value_len == 0 test
vp_msg_nvpairs_foreach_keep_empty(v, cmp, st, nv) ==
  LET dot == Len(nv.name) > 0 /\ nv.name[1] = "."
      seed == \/ (dot /\ BitAnd(v.scopes, VPS_DOT_NV_PAIRS) # 0)
              \/ (~dot /\ BitAnd(v.scopes, VPS_NV_PAIRS) # 0)
              \/ (nv.sdata /\ BitAnd(v.scopes, VPS_SDATA + VPS_RFC5424) # 0)
      inc == PatternLoop(v.patterns, nv.name, seed, 1)
  IN IF ~inc THEN st
     ELSE Insert(st, cmp, "nv", nv.name, vp_transform_apply(v, nv.name),
                 [type_hint |-> "TYPE_HINT_STRING", str |-> nv.value])

\* vp_msg_nvpairs_foreach: one name-value pair of the message
vp_msg_nvpairs_foreach(v, cmp, st, nv) ==
  IF Len(nv.value) = 0 THEN st
  ELSE
    LET dot == Len(nv.name) > 0 /\ nv.name[1] = "."
        seed == \/ (dot /\ BitAnd(v.scopes, VPS_DOT_NV_PAIRS) # 0)
                \/ (~dot /\ BitAnd(v.scopes, VPS_NV_PAIRS) # 0)
                \/ (nv.sdata /\ BitAnd(v.scopes, VPS_SDATA + VPS_RFC5424) # 0)
        inc == PatternLoop(v.patterns, nv.name, seed, 1)
    IN IF ~inc THEN st
       ELSE Insert(st, cmp, "nv", nv.name, vp_transform_apply(v, nv.name),
                   [type_hint |-> "TYPE_HINT_STRING", str |-> nv.value])

\* nv_table_foreach: the callback on every pair of the payload, in table order
RECURSIVE nv_table_foreach(_, _, _, _)
nv_table_foreach(v, cmp, st, payload) ==
  IF payload = <<>> THEN st
  ELSE nv_table_foreach(v, cmp, vp_msg_nvpairs_foreach(v, cmp, st, Head(payload)),
                        Tail(payload))

\* the rendering of a table entry: a macro expansion or a message value
SetValue(entry, m) ==
  IF entry.type = "VPT_MACRO" THEN log_macro_expand(m, entry.name)
  ELSE log_msg_get_value(m, entry.name)

\* the entries of a table whose rendering is not empty
NonEmptyIdx(m, set) == {i \in 1..Len(set) : Len(SetValue(set[i], m)) # 0}

\* variant: vp_merge_other_set keeping the buffer of an empty rendering
RECURSIVE vp_merge_other_set_keep(_, _, _, _, _, _, _, _, _)
vp_merge_other_set_keep(v, m, cmp, set, st, exclude, phase, stale, i) ==
  IF i > Len(set) THEN st
  ELSE IF ~vp_find_in_set(v, set[i].name, exclude)
    THEN vp_merge_other_set_keep(v, m, cmp, set, st, exclude, phase, stale, i + 1)
  ELSE IF Len(SetValue(set[i], m)) = 0
    THEN vp_merge_other_set_keep(v, m, cmp, set, [st EXCEPT !.sb.acq = @ + 1],
                                 exclude, phase, stale, i + 1)
  ELSE vp_merge_other_set_keep(v, m, cmp, set,
         Insert(st, cmp, phase, set[i].name, vp_transform_apply(v, set[i].name),
                [type_hint |-> stale[i], str |-> SetValue(set[i], m)]),
         exclude, phase, stale, i + 1)

\* vp_merge_other_set, entries i..: the scratch buffer's type_hint is not
\* assigned here, so a node carries whatever the acquired buffer held (stale[i])
RECURSIVE vp_merge_other_set(_, _, _, _, _, _, _, _, _)
vp_merge_other_set(v, m, cmp, set, st, exclude, phase, stale, i) ==
  IF i > Len(set) THEN st
  ELSE IF ~vp_find_in_set(v, set[i].name, exclude)
    THEN vp_merge_other_set(v, m, cmp, set, st, exclude, phase, stale, i + 1)
  ELSE IF Len(SetValue(set[i], m)) = 0
    THEN vp_merge_other_set(v, m, cmp, set, [st EXCEPT !.sb = AcquireRelease(@)],
                            exclude, phase, stale, i + 1)
  ELSE vp_merge_other_set(v, m, cmp, set,
         Insert(st, cmp, phase, set[i].name, vp_transform_apply(v, set[i].name),
                [type_hint |-> stale[i], str |-> SetValue(set[i], m)]),
         exclude, phase, stale, i + 1)

\* variant: vp_merge_macros seeding the inclusion with TRUE
vp_merge_macros_seed_true(v, m, cmp, st, stale) ==
  vp_merge_other_set(v, m, cmp, all_macros, st, TRUE, "macros", stale, 1)

vp_merge_macros(v, m, cmp, st, stale) ==
  vp_merge_other_set(v, m, cmp, all_macros, st, FALSE, "macros", stale, 1)

vp_merge_set(v, m, cmp, set, st, phase, stale) ==
  vp_merge_other_set(v, m, cmp, set, st, TRUE, phase, stale, 1)

\* variant: vp_pairs_foreach taking the node at the key out of the tree
\* when the rendering is empty
vp_pairs_foreach_hide(v, m, cmp, st, vpc) ==
  LET str == log_template_append_format(vpc.template, m)
      key == vp_transform_apply(v, vpc.name)
  IN IF Len(str) = 0
       THEN [st EXCEPT !.tree = SelectSeq(@, LAMBDA n : Compare(cmp, key, n.key) # 0),
                       !.sb = AcquireRelease(@)]
     ELSE Insert(st, cmp, "pairs", vpc.name, key,
                 [type_hint |-> vpc.template.type_hint, str |-> str])

\* variant: vp_pairs_foreach honouring the exclude patterns
vp_pairs_foreach_excludable(v, m, cmp, st, vpc) ==
  LET str == log_template_append_format(vpc.template, m)
  IN IF Len(str) = 0 \/ ~vp_find_in_set(v, vpc.name, TRUE) THEN st
     ELSE Insert(st, cmp, "pairs", vpc.name, vp_transform_apply(v, vpc.name),
                 [type_hint |-> vpc.template.type_hint, str |-> str])

\* vp_pairs_foreach: one explicit pair
vp_pairs_foreach(v, m, cmp, st, vpc) ==
  LET str == log_template_append_format(vpc.template, m)
  IN IF Len(str) = 0 THEN [st EXCEPT !.sb = AcquireRelease(@)]
     ELSE Insert(st, cmp, "pairs", vpc.name, vp_transform_apply(v, vpc.name),
                 [type_hint |-> vpc.template.type_hint, str |-> str])

\* variant: only the first configured pair is merged
PairsLoop_first(v, m, cmp, st, vpairs) ==
  IF vpairs = <<>> THEN st ELSE vp_pairs_foreach(v, m, cmp, st, Head(vpairs))

\* g_ptr_array_foreach over vp->vpairs
RECURSIVE PairsLoop(_, _, _, _, _)
PairsLoop(v, m, cmp, st, vpairs) ==
  IF vpairs = <<>> THEN st
  ELSE PairsLoop(v, m, cmp, vp_pairs_foreach(v, m, cmp, st, Head(vpairs)), Tail(vpairs))

\* the guards of value_pairs_foreach_sorted
GuardNv(v) ==
  \/ BitAnd(v.scopes, VPS_NV_PAIRS + VPS_DOT_NV_PAIRS + VPS_SDATA + VPS_RFC5424) # 0
  \/ Len(v.patterns) > 0
GuardMacros(v) == Len(v.patterns) > 0
\* variant: the RFC3164 table merged for the rfc3164 scope alone
GuardRfc3164_own_bit(v) == BitAnd(v.scopes, VPS_RFC3164) # 0
GuardRfc3164(v) == BitAnd(v.scopes, VPS_RFC3164 + VPS_RFC5424 + VPS_SELECTED_MACROS) # 0
\* variant: the RFC5424 table skipped when all macros are merged anyway
GuardRfc5424_unless_all(v) ==
  BitAnd(v.scopes, VPS_RFC5424) # 0 /\ BitAnd(v.scopes, VPS_ALL_MACROS) = 0
GuardRfc5424(v) == BitAnd(v.scopes, VPS_RFC5424) # 0
GuardSelected(v) == BitAnd(v.scopes, VPS_SELECTED_MACROS) # 0
GuardAllMacros(v) == BitAnd(v.scopes, VPS_ALL_MACROS) # 0

\* the macro phases in execution order: position, guard, table
MergePhases(v) ==
  << [phase |-> "macros", guard |-> GuardMacros(v), set |-> all_macros],
     [phase |-> "rfc3164", guard |-> GuardRfc3164(v), set |-> rfc3164],
     [phase |-> "rfc5424", guard |-> GuardRfc5424(v), set |-> rfc5424],
     [phase |-> "selected", guard |-> GuardSelected(v), set |-> selected_macros],
     [phase |-> "all", guard |-> GuardAllMacros(v), set |-> all_macros] >>

\* one macro phase: the merge when its guard holds
MergeStep(v, m, cmp, st, ph, stale) ==
  IF ~ph.guard THEN st
  ELSE IF ph.phase = "macros" THEN vp_merge_macros(v, m, cmp, st, stale)
  ELSE vp_merge_set(v, m, cmp, ph.set, st, ph.phase, stale)

NvStep(v, m, cmp, st) ==
  IF GuardNv(v) THEN nv_table_foreach(v, cmp, st, m.nv) ELSE st

EmptyTree == [tree |-> <<>>, log |-> <<>>, sb |-> NoSb]

\* the type hints the acquired buffers carry when every one of them carries
\* h: one function per macro phase, over the macros that do not render empty
SbHints(v, m, h) ==
  [k \in 1..5 |-> [i \in NonEmptyIdx(m, MergePhases(v)[k].set) |-> h]]

\* the five macro phases from phase k on; stale[k][i] is the type hint the
\* buffer acquired for macro i of phase k carries, which vp_merge_other_set
\* leaves as it finds it
RECURSIVE MergeFrom(_, _, _, _, _, _)
MergeFrom(v, m, cmp, st, stale, k) ==
  IF k > 5 THEN st
  ELSE LET ph == MergePhases(v)[k]
       IN MergeFrom(v, m, cmp, MergeStep(v, m, cmp, st, ph, stale[k]), stale, k + 1)

\* the whole build of value_pairs_foreach_sorted for (v, m) when the acquired
\* buffers carry the type hints stale: the tree and the insertions made
Build(v, m, cmp, stale) ==
  PairsLoop(v, m, cmp,
            MergeFrom(v, m, cmp, NvStep(v, m, cmp, EmptyTree), stale, 1), v.vpairs)

-----------------------------------------------------------------------------
(* Inputs *)

N_a == <<"a">>
N_dot_a == <<".", "a">>
N_e == <<"e">>
N_k == <<"k">>
N_sdata == <<".","S","D","A","T","A",".","x">>

NoMacros == [n \in {macros[i] : i \in 1..Len(macros)} |-> ""]

\* the messages evaluated: name-value pairs in payload order (one of them
\* SDATA, one with an empty value) and the rendering of every macro
Messages ==
  { [nv |-> << [name |-> HOST, value |-> "h", sdata |-> FALSE],
               [name |-> N_a, value |-> "1", sdata |-> FALSE],
               [name |-> N_dot_a, value |-> "2", sdata |-> FALSE],
               [name |-> N_sdata, value |-> "3", sdata |-> TRUE],
               [name |-> N_e, value |-> "", sdata |-> FALSE] >>,
     macros |-> [NoMacros EXCEPT ![HOST] = "mh", ![TAGS] = "t"]],
    [nv |-> << [name |-> N_dot_a, value |-> "5", sdata |-> FALSE],
               [name |-> N_a, value |-> "6", sdata |-> FALSE],
               [name |-> MSGID, value |-> "id", sdata |-> FALSE] >>,
     macros |-> [NoMacros EXCEPT ![YEAR] = "y"]] }

NoMsg == [nv |-> <<>>, macros |-> NoMacros]

\* arguments of value_pairs_add_scope
ScopeNames == DOMAIN value_pair_scope

\* arguments of value_pairs_add_glob_pattern
Globs == { <<"*">>, <<"H", "*">>, <<"?", "a">> }

\* arguments of value_pairs_add_glob_patterns: a list of patterns and the
\* include flag given with it
GlobLists ==
  { [patterns |-> << <<"*">>, <<"H", "*">>, <<"?", "a">> >>, include |-> FALSE],
    [patterns |-> << <<"H", "*">> >>, include |-> TRUE] }

\* arguments of value_pairs_add_pair: a literal template, a template that
\* renders a message field (empty when the field is unset), a second key
PairChoices ==
  { [name |-> HOST,
     template |-> [kind |-> "literal", arg |-> "o", type_hint |-> "TYPE_HINT_INT32"]],
    [name |-> HOST,
     template |-> [kind |-> "value", arg |-> MSGID, type_hint |-> "TYPE_HINT_STRING"]],
    [name |-> N_k,
     template |-> [kind |-> "literal", arg |-> "v", type_hint |-> "TYPE_HINT_STRING"]] }

\* arguments of value_pairs_add_transforms
TransformChoices ==
  { [key |-> <<".", "*">>,
     funcs |-> << [type |-> "replace_prefix", old |-> <<".">>, new |-> <<>>] >>],
    [key |-> <<"*">>,
     funcs |-> << [type |-> "shift", amount |-> 1],
                  [type |-> "add_prefix", prefix |-> <<"x">>] >>] }

-----------------------------------------------------------------------------
(* The state machine *)

\* value_pairs_new
value_pairs_new ==
  [ref_cnt |-> 1, scopes |-> 0, patterns |-> <<>>, vpairs |-> <<>>, transforms |-> <<>>]

\* a NULL gchar pointer, apart from every string (the empty one included)
NULL == <<"NULL">>

\* no walk running
NoWalk == [stack |-> <<>>, events |-> <<>>]

\* the holders of the object: the creator owns the one reference
MaxHolders == 3
Holders == 1..MaxHolders
NoRefs == [held |-> [h \in Holders |-> IF h = 1 THEN 1 ELSE 0],
           freed |-> 0, nref |-> 0, nunref |-> 0, aborted |-> FALSE,
           null_calls |-> <<>>]

\* no command line being parsed
NoCmd == [pc |-> "idle", seen |-> <<>>, vpts |-> <<>>, key |-> NULL,
          success |-> TRUE, ret |-> "none", nsets |-> 0, set_frees |-> <<>>]

\* no name given to the tokenizer
NoTok == [name |-> NULL, tokens |-> <<>>, done |-> FALSE]

\* no program destination driver yet: nothing forked, signalled, registered
\* with the child manager or kept in the reload store
NoDd == [state |-> "none", pid |-> -1, writer |-> 0, keep_alive |-> FALSE,
         initialized |-> FALSE, forked |-> 0, reaped |-> {},
         children |-> {}, persist |-> <<>>, nwriters |-> 0, unrefs |-> <<>>,
         term |-> <<>>, nreopen |-> 0, proto |-> -1, calls |-> <<>>]

\* no program source driver yet
NoSd == [state |-> "none", pid |-> -1, reader |-> 0, forked |-> 0, reaped |-> {},
         children |-> {}, nreaders |-> 0, term |-> <<>>,
         calls |-> <<>>]

\* the components outside the evaluation at rest
OtherInit ==
  /\ walk = NoWalk
  /\ prev = <<>>
  /\ refs = NoRefs
  /\ scope_log = <<>>
  /\ cmd = NoCmd
  /\ tok = NoTok
  /\ dd = NoDd
  /\ sd = NoSd

Init ==
  /\ OtherInit
  /\ vp = value_pairs_new
  /\ ncalls = 0
  /\ pc = "idle"
  /\ msg = NoMsg
  /\ compare_func = "strcmp"
  /\ scope_set = <<>>
  /\ idx = 1
  /\ result = TRUE
  /\ retval = "none"
  /\ delivered = <<>>
  /\ log = <<>>
  /\ sbuf = NoSb

CanBuild == pc = "idle" /\ ncalls < MaxCalls

evalVars == <<pc, msg, compare_func, scope_set, idx, result, retval, delivered, log, sbuf>>

value_pairs_add_scope(scope) ==
  /\ CanBuild
  /\ vp' = [vp EXCEPT !.scopes = cfg_process_flag(value_pair_scope, vp.scopes, scope).scopes]
  /\ ncalls' = ncalls + 1
  /\ UNCHANGED <<evalVars, otherVars>>

value_pairs_add_glob_pattern(pattern, include) ==
  /\ CanBuild
  /\ vp' = [vp EXCEPT !.patterns = Append(@, vp_pattern_spec_new(pattern, include))]
  /\ ncalls' = ncalls + 1
  /\ UNCHANGED <<evalVars, otherVars>>

\* the loop of value_pairs_add_glob_patterns over the list l: one
\* value_pairs_add_glob_pattern per element, in list order
RECURSIVE GlobPatternsLoop(_, _, _)
GlobPatternsLoop(v, l, include) ==
  IF l = <<>> THEN v
  ELSE GlobPatternsLoop([v EXCEPT !.patterns =
                            Append(@, vp_pattern_spec_new(Head(l), include))],
                        Tail(l), include)

\* one call appends every pattern of the list; the list is freed afterwards
value_pairs_add_glob_patterns(patterns, include) ==
  /\ CanBuild
  /\ vp' = GlobPatternsLoop(vp, patterns, include)
  /\ ncalls' = ncalls + 1
  /\ UNCHANGED <<evalVars, otherVars>>

value_pairs_add_pair(key, value) ==
  /\ CanBuild
  /\ vp' = [vp EXCEPT !.vpairs = Append(@, [name |-> key, template |-> value])]
  /\ ncalls' = ncalls + 1
  /\ UNCHANGED <<evalVars, otherVars>>

value_pairs_add_transforms(vpts) ==
  /\ CanBuild
  /\ vp' = [vp EXCEPT !.transforms = Append(@, vpts)]
  /\ ncalls' = ncalls + 1
  /\ UNCHANGED <<evalVars, otherVars>>

\* variant: value_pairs_foreach passing the walker's comparator
ForeachCompare_walk == "vp_walk_cmp"

\* the comparator value_pairs_foreach passes on
ForeachCompare == "strcmp"

\* value_pairs_foreach: value_pairs_foreach_sorted with strcmp, up to the
\* creation of the empty tree
value_pairs_foreach(m) ==
  /\ pc = "idle"
  /\ pc' = "nv"
  /\ msg' = m
  /\ compare_func' = ForeachCompare
  /\ scope_set' = <<>>
  /\ idx' = 1
  /\ result' = TRUE
  /\ delivered' = <<>>
  /\ log' = <<>>
  /\ sbuf' = NoSb
  /\ UNCHANGED <<otherVars, vp, ncalls, retval>>

Cur == [tree |-> scope_set, log |-> log, sb |-> sbuf]

\* variant: the explicit pairs merged right after the message pairs
NextPc_pairs_early(p) ==
  CASE p = "nv" -> "pairs"
    [] p = "pairs" -> "macros"
    [] p = "macros" -> "rfc3164"
    [] p = "rfc3164" -> "rfc5424"
    [] p = "rfc5424" -> "selected"
    [] p = "selected" -> "all"
    [] OTHER -> "foreach"

\* the statement order of value_pairs_foreach_sorted
NextPc(p) ==
  CASE p = "nv" -> "macros"
    [] p = "macros" -> "rfc3164"
    [] p = "rfc3164" -> "rfc5424"
    [] p = "rfc5424" -> "selected"
    [] p = "selected" -> "all"
    [] p = "all" -> "pairs"
    [] OTHER -> "foreach"

\* the message name-value pairs
PhaseNv ==
  /\ pc = "nv"
  /\ LET st == NvStep(vp, msg, compare_func, Cur)
     IN scope_set' = st.tree /\ log' = st.log /\ sbuf' = st.sb
  /\ pc' = NextPc(pc)
  /\ UNCHANGED <<otherVars, vp, ncalls, msg, compare_func, idx, result, retval, delivered>>

\* macro phase number k of MergePhases
PhaseMerge(k) ==
  LET ph == MergePhases(vp)[k]
  IN /\ \E stale \in [NonEmptyIdx(msg, ph.set) -> TypeHints] :
          LET st == MergeStep(vp, msg, compare_func, Cur, ph, stale)
          IN scope_set' = st.tree /\ log' = st.log /\ sbuf' = st.sb
     /\ pc' = NextPc(pc)
     /\ UNCHANGED <<otherVars, vp, ncalls, msg, compare_func, idx, result, retval, delivered>>

\* vp_merge_macros when a pattern exists, then the four vp_merge_set calls
PhaseMacros == pc = "macros" /\ PhaseMerge(1)
PhaseRfc3164 == pc = "rfc3164" /\ PhaseMerge(2)
PhaseRfc5424 == pc = "rfc5424" /\ PhaseMerge(3)
PhaseSelected == pc = "selected" /\ PhaseMerge(4)
PhaseAllMacros == pc = "all" /\ PhaseMerge(5)

\* the explicit pairs
PhasePairs ==
  /\ pc = "pairs"
  /\ LET st == PairsLoop(vp, msg, compare_func, Cur, vp.vpairs)
     IN scope_set' = st.tree /\ log' = st.log /\ sbuf' = st.sb
  /\ pc' = NextPc(pc)
  /\ idx' = 1
  /\ UNCHANGED <<otherVars, vp, ncalls, msg, compare_func, result, retval, delivered>>

\* variant: the accumulator combined with the callback's value as it is
vp_foreach_helper_plain(r, ret) == r /\ ret

\* vp_foreach_helper: *r &= !func(...); return !*r
vp_foreach_helper(r, ret) == r /\ ~ret

\* g_tree_foreach visiting the next node: the consumer's callback returns ret
\* (TRUE signals failure); the traversal stops once the helper returns TRUE
Callback(ret) ==
  /\ pc = "foreach"
  /\ idx <= Len(scope_set)
  /\ delivered' = Append(delivered, [name |-> scope_set[idx].key,
                                      type |-> scope_set[idx].type_hint,
                                      value |-> scope_set[idx].str,
                                      ret |-> ret])
  /\ result' = vp_foreach_helper(result, ret)
  /\ IF ~result' THEN pc' = "destroy" /\ idx' = idx
                 ELSE pc' = pc /\ idx' = idx + 1
  /\ UNCHANGED <<otherVars, vp, ncalls, msg, compare_func, scope_set, retval, log, sbuf>>

\* g_tree_foreach has visited every node
ForeachEnd ==
  /\ pc = "foreach"
  /\ idx > Len(scope_set)
  /\ pc' = "destroy"
  /\ UNCHANGED <<otherVars, vp, ncalls, msg, compare_func, scope_set, idx, result, retval,
                 delivered, log, sbuf>>

\* g_tree_destroy and return result
Return ==
  /\ pc = "destroy"
  /\ scope_set' = <<>>
  /\ retval' = result
  /\ pc' = "done"
  /\ sbuf' = g_tree_destroy(scope_set, sbuf)
  /\ UNCHANGED <<otherVars, vp, ncalls, msg, compare_func, idx, result, delivered, log>>

\* the caller goes on to configure or evaluate again
Continue ==
  /\ pc = "done"
  /\ pc' = "idle"
  /\ msg' = NoMsg
  /\ idx' = 1
  /\ result' = TRUE
  /\ retval' = "none"
  /\ delivered' = <<>>
  /\ log' = <<>>
  /\ sbuf' = NoSb
  /\ UNCHANGED <<otherVars, vp, ncalls, compare_func, scope_set>>

Next ==
  \/ \E scope \in ScopeNames : value_pairs_add_scope(scope)
  \/ \E g \in Globs, include \in BOOLEAN : value_pairs_add_glob_pattern(g, include)
  \/ \E l \in GlobLists : value_pairs_add_glob_patterns(l.patterns, l.include)
  \/ \E p \in PairChoices : value_pairs_add_pair(p.name, p.template)
  \/ \E t \in TransformChoices : value_pairs_add_transforms(t)
  \/ \E m \in Messages : value_pairs_foreach(m)
  \/ PhaseNv
  \/ PhaseMacros
  \/ PhaseRfc3164
  \/ PhaseRfc5424
  \/ PhaseSelected
  \/ PhaseAllMacros
  \/ PhasePairs
  \/ \E ret \in BOOLEAN : Callback(ret)
  \/ ForeachEnd
  \/ Return
  \/ Continue

Spec == Init /\ [][Next]_vars

-----------------------------------------------------------------------------
(* Properties *)

Max(S) == CHOOSE x \in S : \A y \in S : y <= x

PcOrder == <<"nv", "macros", "rfc3164", "rfc5424", "selected", "all", "pairs",
             "foreach", "destroy", "done">>
PcRank(p) == CHOOSE i \in 1..Len(PcOrder) : PcOrder[i] = p

\* the call has gone past phase p
Past(p) == pc # "idle" /\ PcRank(pc) > PcRank(p)

\* the tree is complete and still alive
Built == pc \in {"foreach", "destroy"}

\* inclusion as the last matching pattern decides it, the seed when none matches
LastMatch(patterns, name, seed) ==
  LET M == {j \in 1..Len(patterns) : GlobMatch(patterns[j].pattern, name)}
  IN IF M = {} THEN seed ELSE patterns[Max(M)].include

HasBit(bits) == BitsOf(vp.scopes) \cap bits # {}

LogIdx(phase) == {i \in 1..Len(log) : log[i].phase = phase}
LogNames(phase) == {log[i].name : i \in LogIdx(phase)}
TreeKeys(tree) == {tree[i].key : i \in 1..Len(tree)}
SeqSet(seq) == {seq[i] : i \in 1..Len(seq)}

Rendering(vpc) == log_template_append_format(vpc.template, msg)
FinalKey(name) == vp_transform_apply(vp, name)

\* C1: no node of the tree and no value handed to the callback is empty, in
\* any phase of the build and for every configuration and message
C1_NoEmptyValue ==
  /\ \A i \in 1..Len(scope_set) : Len(scope_set[i].str) > 0
  /\ \A i \in 1..Len(delivered) : Len(delivered[i].value) > 0
  /\ \A i \in 1..Len(log) : Len(log[i].value) > 0

\* C1 witness: a finished traversal of a build in which an included message
\* pair, a merged table entry and an explicit pair all rendered empty
C1_Witness ==
  /\ pc = "destroy" /\ result /\ Len(delivered) > 0
  /\ HasBit({VPS_NV_PAIRS})
  /\ \E i \in 1..Len(msg.nv) : msg.nv[i].value = "" /\ msg.nv[i].name[1] # "."
  /\ GuardRfc3164(vp)
  /\ \E i \in 1..Len(rfc3164) : SetValue(rfc3164[i], msg) = ""
  /\ \E i \in 1..Len(vp.vpairs) : Rendering(vp.vpairs[i]) = ""

\* the last configured pair with a rendering that lands on the final key k
LastPairAt(k) ==
  vp.vpairs[Max({j \in 1..Len(vp.vpairs) :
                   FinalKey(vp.vpairs[j].name) = k /\ Rendering(vp.vpairs[j]) # ""})]

\* C2: an explicit pair with a non-empty rendering is in the output at its
\* transformed name, with the rendering and type hint of the template (of the
\* last configured such pair when several share the final key), whatever the
\* scopes and patterns are and whatever earlier phases put there
C2_ExplicitPairAlwaysPresent ==
  \A i \in 1..Len(vp.vpairs) :
    Rendering(vp.vpairs[i]) # "" =>
      LET k == FinalKey(vp.vpairs[i].name)
          p == LastPairAt(k)
      IN /\ Built =>
              \E n \in 1..Len(scope_set) :
                 /\ scope_set[n].key = k
                 /\ scope_set[n].str = Rendering(p)
                 /\ scope_set[n].type_hint = p.template.type_hint
         /\ (pc = "destroy" /\ result) =>
              \E n \in 1..Len(delivered) :
                 /\ delivered[n].name = k
                 /\ delivered[n].value = Rendering(p)
                 /\ delivered[n].type = p.template.type_hint

\* C2 witness: a delivered explicit pair whose final key an earlier phase had
\* filled with another value
C2_Witness ==
  /\ pc = "destroy" /\ result
  /\ \E i \in 1..Len(vp.vpairs), j \in 1..Len(log) :
       /\ Rendering(vp.vpairs[i]) # ""
       /\ log[j].phase # "pairs"
       /\ log[j].key = FinalKey(vp.vpairs[i].name)
       /\ log[j].value # Rendering(vp.vpairs[i])

PhaseOrder == <<"nv", "macros", "rfc3164", "rfc5424", "selected", "all", "pairs">>
PhaseRank(p) == CHOOSE i \in 1..Len(PhaseOrder) : PhaseOrder[i] = p

\* the insertions made under key k
LogAt(lg, k) == {i \in 1..Len(lg) : lg[i].key = k}

\* C3: the tree holds one node per final key, and its value is one produced
\* by the latest phase (in the fixed order nv, macros, rfc3164, rfc5424,
\* selected, all, pairs) that produced a value for that key
C3_LatestPhaseWins ==
  (pc \notin {"idle", "done"}) =>
    /\ \A i, j \in 1..Len(scope_set) : i # j => scope_set[i].key # scope_set[j].key
    /\ TreeKeys(scope_set) = {log[i].key : i \in 1..Len(log)}
    /\ \A n \in 1..Len(scope_set) :
         LET E == LogAt(log, scope_set[n].key)
             top == Max({PhaseRank(log[i].phase) : i \in E})
         IN \E i \in E : PhaseRank(log[i].phase) = top /\ log[i].value = scope_set[n].str
    /\ \A d \in 1..Len(delivered) :
         \E n \in 1..Len(scope_set) :
            scope_set[n].key = delivered[d].name /\ scope_set[n].str = delivered[d].value

\* C3 witness: a key delivered after three different phases wrote it with
\* values that are not all the same
C3_Witness ==
  /\ pc = "destroy" /\ result
  /\ \E k \in TreeKeys(scope_set) :
       /\ Cardinality({log[i].phase : i \in LogAt(log, k)}) >= 3
       /\ Cardinality({log[i].value : i \in LogAt(log, k)}) >= 2

\* the seed of the message phase for a pair, from the scope bits
NvSeed(nv) ==
  \/ (nv.name[1] = "." /\ HasBit({VPS_DOT_NV_PAIRS}))
  \/ (nv.name[1] # "." /\ HasBit({VPS_NV_PAIRS}))
  \/ (nv.sdata /\ HasBit({VPS_SDATA, VPS_RFC5424}))

\* C4: the message phase inserts exactly the pairs with a non-empty value for
\* which the last matching pattern is an include, or no pattern matches and
\* the seed from the scope bits holds
C4_NvInclusion ==
  Past("nv") =>
    LogNames("nv") =
      {msg.nv[i].name : i \in {j \in 1..Len(msg.nv) :
          /\ msg.nv[j].value # ""
          /\ LastMatch(vp.patterns, msg.nv[j].name, NvSeed(msg.nv[j]))}}

\* C4 witness: after the message phase, a pair left out although its seed
\* holds and an earlier pattern includes it, and a pair inserted although its
\* seed fails
C4_Witness ==
  /\ Past("nv")
  /\ \E i \in 1..Len(msg.nv) :
       /\ msg.nv[i].value # "" /\ msg.nv[i].name \notin LogNames("nv")
       /\ Len(vp.patterns) = 2
       /\ vp.patterns[1].include /\ GlobMatch(vp.patterns[1].pattern, msg.nv[i].name)
       /\ ~vp.patterns[2].include /\ GlobMatch(vp.patterns[2].pattern, msg.nv[i].name)
  /\ \E i \in 1..Len(msg.nv) : msg.nv[i].name \in LogNames("nv") /\ ~NvSeed(msg.nv[i])

\* the names of a table inserted when the merge runs with the given seed
Merged(set, seed) ==
  {set[i].name : i \in {j \in 1..Len(set) :
      /\ SetValue(set[j], msg) # ""
      /\ LastMatch(vp.patterns, set[j].name, seed)}}

\* C5: the pattern-only merge inserts exactly the macros with a non-empty
\* rendering whose last matching pattern is an include (a macro no pattern
\* matches stays out), and nothing when there is no pattern
C5_PatternOnlyMerge ==
  Past("macros") =>
    LogNames("macros") = IF vp.patterns = <<>> THEN {} ELSE Merged(all_macros, FALSE)

\* C5 witness: no macro scope bit set, a pattern pulled a macro in and
\* another macro with a rendering stayed out
C5_Witness ==
  /\ Past("macros")
  /\ ~HasBit({VPS_RFC3164, VPS_RFC5424, VPS_SELECTED_MACROS, VPS_ALL_MACROS})
  /\ LogNames("macros") # {}
  /\ \E i \in 1..Len(macros) :
       log_macro_expand(msg, macros[i]) # "" /\ macros[i] \notin LogNames("macros")

\* C6: each table is merged under its fixed guard, and a merged table inserts
\* every entry with a non-empty rendering unless its last matching pattern is
\* an exclude
C6_ScopeMerges ==
  Past("all") =>
    /\ LogNames("rfc3164") =
         IF HasBit({VPS_RFC3164, VPS_RFC5424, VPS_SELECTED_MACROS})
           THEN Merged(rfc3164, TRUE) ELSE {}
    /\ LogNames("rfc5424") =
         IF HasBit({VPS_RFC5424}) THEN Merged(rfc5424, TRUE) ELSE {}
    /\ LogNames("selected") =
         IF HasBit({VPS_SELECTED_MACROS}) THEN Merged(selected_macros, TRUE) ELSE {}
    /\ LogNames("all") =
         IF HasBit({VPS_ALL_MACROS}) THEN Merged(all_macros, TRUE) ELSE {}

\* C6 witness: the RFC3164 table merged on behalf of the selected-macros
\* scope, with an entry kept out by an exclude pattern
C6_Witness ==
  /\ Past("all")
  /\ HasBit({VPS_SELECTED_MACROS}) /\ ~HasBit({VPS_RFC3164})
  /\ LogNames("selected") # {}
  /\ \E i \in 1..Len(rfc3164) :
       /\ SetValue(rfc3164[i], msg) # ""
       /\ rfc3164[i].name \notin LogNames("rfc3164")
       /\ \E j \in 1..Len(vp.patterns) :
            ~vp.patterns[j].include /\ GlobMatch(vp.patterns[j].pattern, rfc3164[i].name)

\* the node that wrote key k last, in an insertion history
Writer(lg, k) == lg[Max(LogAt(lg, k))]
ValueAt(tree, k) == tree[CHOOSE n \in 1..Len(tree) : tree[n].key = k].str

\* the build of the same pairs, patterns, transforms and message under the
\* scope mask made of the bits S1; its keys, values and writers are read,
\* which the type hints of the acquired buffers do not enter
BuildUnder(S1) ==
  Build([vp EXCEPT !.scopes = SumSet(S1)], msg, compare_func,
        SbHints(vp, msg, "TYPE_HINT_STRING"))

\* the tree has just been completed
JustBuilt == pc = "foreach" /\ delivered = <<>>

\* C7 as stated: under every subset of the scope bits the keys are a subset,
\* and a shared key has another value only when a later phase wrote it
C7_Original ==
  JustBuilt =>
    \A S1 \in SUBSET BitsOf(vp.scopes) :
      LET b1 == BuildUnder(S1)
      IN /\ TreeKeys(b1.tree) \subseteq TreeKeys(scope_set)
         /\ \A k \in TreeKeys(b1.tree) :
              ValueAt(b1.tree, k) # ValueAt(scope_set, k) =>
                PhaseRank(Writer(log, k).phase) > PhaseRank(Writer(b1.log, k).phase)

\* C7 amended: under every subset of the scope bits the keys are a subset,
\* and a shared key has another value only when a writer that the smaller
\* mask does not have wrote it: a later phase, or in the message phase a
\* pair that only the larger mask includes
C7_ScopeMonotone ==
  JustBuilt =>
    \A S1 \in SUBSET BitsOf(vp.scopes) :
      LET b1 == BuildUnder(S1)
      IN /\ TreeKeys(b1.tree) \subseteq TreeKeys(scope_set)
         /\ \A k \in TreeKeys(b1.tree) :
              ValueAt(b1.tree, k) # ValueAt(scope_set, k) =>
                \/ PhaseRank(Writer(log, k).phase) > PhaseRank(Writer(b1.log, k).phase)
                \/ /\ Writer(log, k).phase = "nv"
                   /\ Writer(b1.log, k).phase = "nv"
                   /\ \A i \in 1..Len(b1.log) :
                        b1.log[i].phase = "nv" => b1.log[i].name # Writer(log, k).name

\* C7 witness: a completed build under several scope bits for which a proper
\* subset of the bits yields fewer keys, and another one a different value
C7_Witness ==
  /\ JustBuilt
  /\ \E S1 \in SUBSET BitsOf(vp.scopes) :
       /\ TreeKeys(BuildUnder(S1).tree) # {}
       /\ TreeKeys(BuildUnder(S1).tree) # TreeKeys(scope_set)
  /\ \E S1 \in SUBSET BitsOf(vp.scopes) :
       \E k \in TreeKeys(BuildUnder(S1).tree) :
          ValueAt(BuildUnder(S1).tree, k) # ValueAt(scope_set, k)

OnlyPairs == vp.scopes = 0 /\ vp.patterns = <<>> /\ Len(vp.vpairs) > 0

\* C8 as stated: with explicit pairs only, the keys are the transformed pair
\* names and each pair's key holds the rendering of that pair's template
C8_Original ==
  (Built /\ OnlyPairs) =>
    /\ TreeKeys(scope_set) = {FinalKey(vp.vpairs[i].name) : i \in 1..Len(vp.vpairs)}
    /\ \A i \in 1..Len(vp.vpairs) :
         \E n \in 1..Len(scope_set) :
            /\ scope_set[n].key = FinalKey(vp.vpairs[i].name)
            /\ scope_set[n].str = Rendering(vp.vpairs[i])

\* C8 amended: with explicit pairs only, the keys are the transformed names
\* of the pairs whose rendering is not empty, and each key holds the rendering
\* of the last configured such pair that maps to it
C8_OnlyExplicitPairs ==
  (Built /\ OnlyPairs) =>
    /\ TreeKeys(scope_set) =
         {FinalKey(vp.vpairs[i].name) :
            i \in {j \in 1..Len(vp.vpairs) : Rendering(vp.vpairs[j]) # ""}}
    /\ \A n \in 1..Len(scope_set) :
         scope_set[n].str = Rendering(LastPairAt(scope_set[n].key))
    /\ (pc = "destroy" /\ result) =>
         /\ Len(delivered) = Len(scope_set)
         /\ \A n \in 1..Len(scope_set) :
              /\ delivered[n].name = scope_set[n].key
              /\ delivered[n].value = scope_set[n].str

\* C8 witness: explicit pairs and a transform, nothing else, every pair
\* delivered under its transformed name
C8_Witness ==
  /\ pc = "destroy" /\ result /\ OnlyPairs
  /\ Len(vp.transforms) > 0
  /\ Len(delivered) = Len(vp.vpairs)
  /\ \A i \in 1..Len(vp.vpairs) : FinalKey(vp.vpairs[i].name) # vp.vpairs[i].name

\* the explicit pairs whose template renders empty for the message
EmptyPairs == {i \in 1..Len(vp.vpairs) : Rendering(vp.vpairs[i]) = ""}

\* the object without its explicit pair number i
WithoutPair(i) ==
  [vp EXCEPT !.vpairs = SubSeq(@, 1, i - 1) \o SubSeq(@, i + 1, Len(@))]

\* the keys of a tree with their values, in order
KeysAndValues(tree) == [n \in 1..Len(tree) |-> <<tree[n].key, tree[n].str>>]

\* C29 as stated: an explicit pair that renders empty hides its key, the
\* tree holds no node at the transformed name written by an earlier phase
C29_Original ==
  Built =>
    \A i \in EmptyPairs :
      LET k == FinalKey(vp.vpairs[i].name)
      IN k \in TreeKeys(scope_set) => Writer(log, k).phase = "pairs"

\* C29 amended: an explicit pair that renders empty is dropped and hides
\* nothing: the tree has the keys and values of the tree of the object
\* without that pair, whatever type hints the acquired buffers carry, so a
\* node an earlier phase wrote at the transformed name stays, with its value
C29_EmptyPairDropped ==
  Built =>
    \A i \in EmptyPairs :
      LET k == FinalKey(vp.vpairs[i].name)
          E == {j \in LogAt(log, k) : log[j].phase # "pairs"}
      IN /\ \A h \in TypeHints :
              KeysAndValues(scope_set) =
                KeysAndValues(Build(WithoutPair(i), msg, compare_func,
                                    SbHints(vp, msg, h)).tree)
         /\ (E # {} /\ LogAt(log, k) = E) =>
              /\ k \in TreeKeys(scope_set)
              /\ ValueAt(scope_set, k) = log[Max(E)].value

\* C29 witness: a delivered key that a message pair wrote and that an
\* explicit pair with an empty rendering has as its transformed name
C29_Witness ==
  /\ pc = "destroy" /\ result
  /\ \E i \in EmptyPairs, d \in 1..Len(delivered) :
       LET k == FinalKey(vp.vpairs[i].name)
       IN /\ delivered[d].name = k
          /\ Writer(log, k).phase = "nv"
          /\ delivered[d].value = Writer(log, k).value

\* C9: the flat traversal calls the consumer in strictly ascending strcmp
\* order of the keys, and a traversal that no callback stopped has delivered
\* every key of the tree exactly once
C9_AscendingOnce ==
  /\ \A i, j \in 1..Len(delivered) :
       i < j => strcmp(delivered[i].name, delivered[j].name) < 0
  /\ (pc \in {"foreach", "destroy"} /\ result) =>
       /\ Len(delivered) = idx - 1
       /\ \A i \in 1..Len(delivered) : delivered[i].name = scope_set[i].key
  /\ (pc = "destroy" /\ result) =>
       /\ {delivered[i].name : i \in 1..Len(delivered)} = {log[i].key : i \in 1..Len(log)}
       /\ Len(delivered) = Cardinality({log[i].key : i \in 1..Len(log)})

\* C9 witness: a complete traversal of at least four keys that were inserted
\* in another order than the one delivered
C9_Witness ==
  /\ pc = "destroy" /\ result
  /\ Len(delivered) >= 4
  /\ \E i, j \in 1..Len(log) : i < j /\ strcmp(log[i].key, log[j].key) > 0

\* C10: a callback that signals failure is the last one invoked, the call
\* then returns FALSE, and a call in which no callback failed returns TRUE
C10_ShortCircuit ==
  /\ \A i \in 1..Len(delivered) : delivered[i].ret => i = Len(delivered)
  /\ pc = "done" => retval = (\A i \in 1..Len(delivered) : ~delivered[i].ret)
  /\ (pc = "foreach" /\ idx <= Len(scope_set)) =>
       \A i \in 1..Len(delivered) : ~delivered[i].ret

\* C10 witness: a call that returned FALSE after a failure in the middle of
\* the tree
C10_Witness ==
  /\ pc = "done" /\ retval = FALSE
  /\ Len(delivered) >= 2
  /\ Len(delivered) < Cardinality({log[i].key : i \in 1..Len(log)})

-----------------------------------------------------------------------------
(* The walker: value_pairs_walk *)

\* name[pos] of the C string, pos counted from 0; "" stands for the NUL
At(name, pos) == IF pos < Len(name) THEN name[pos + 1] ELSE ""

isdigit(c) == InSeq(Digits, c)

\* strspn(&name[pos], "0123456789")
RECURSIVE strspn_digits(_, _)
strspn_digits(name, pos) ==
  IF isdigit(At(name, pos)) THEN 1 + strspn_digits(name, pos + 1) ELSE 0

\* strcspn(&name[pos], "@.")
RECURSIVE strcspn_at_dot(_, _)
strcspn_at_dot(name, pos) ==
  IF At(name, pos) \in {"", "@", "."} THEN 0 ELSE 1 + strcspn_at_dot(name, pos + 1)

\* variant: the skip ending after the first group of digits
vp_walker_skip_sdata_enterprise_id_one_group(name, pos) ==
  (pos + 1) + strspn_digits(name, pos + 1)

\* vp_walker_skip_sdata_enterprise_id: from the '@' (or a '.') at pos, past
\* the digits, again while a '.' followed by a digit comes next
RECURSIVE vp_walker_skip_sdata_enterprise_id(_, _)
vp_walker_skip_sdata_enterprise_id(name, pos) ==
  LET p == (pos + 1) + strspn_digits(name, pos + 1)
  IN IF At(name, p) = "." /\ isdigit(At(name, p + 1))
       THEN vp_walker_skip_sdata_enterprise_id(name, p)
       ELSE p

\* the do-while loop of vp_walker_split_name_to_tokens, entered at pos
RECURSIVE SplitLoop(_, _, _)
SplitLoop(name, pos, array) ==
  LET token_start == pos
      p1 == pos + strcspn_at_dot(name, pos)
      p2 == IF At(name, p1) = "@" THEN vp_walker_skip_sdata_enterprise_id(name, p1)
            ELSE p1
      add == At(name, p2) = "." \/ p2 = Len(name)
      array2 == IF add THEN Append(array, SubSeq(name, token_start + 1, p2)) ELSE array
      p3 == IF add THEN p2 + 1 ELSE p2
  IN IF p3 < Len(name) THEN SplitLoop(name, p3, array2) ELSE array2

\* vp_walker_split_name_to_tokens
vp_walker_split_name_to_tokens(name) == SplitLoop(name, 0, <<>>)

\* vp_walker_name_combine_prefix: tokens 0..until joined by '.'; the model
\* counts tokens from 1
RECURSIVE vp_walker_name_combine_prefix(_, _)
vp_walker_name_combine_prefix(tokens, until) ==
  IF until = 1 THEN tokens[1]
  ELSE vp_walker_name_combine_prefix(tokens, until - 1) \o <<".">> \o tokens[until]

\* strncmp(name, prefix, strlen(prefix)) == 0
strncmp_prefix(name, prefix) == HasPrefix(name, prefix)

\* the prefix of the frame on top of the stack, NULL for an empty stack
PeekPrefix(stack) == IF stack = <<>> THEN NULL ELSE stack[Len(stack)].prefix

\* a consumer callback about to be made, its return value not yet known
Call(kind, key, prefix, parent) ==
  [kind |-> kind, key |-> key, prefix |-> prefix, parent |-> parent]

\* variant: a frame whose prefix matches is popped and not put back
RECURSIVE vp_walker_stack_unwind_containers_until_drop(_, _)
vp_walker_stack_unwind_containers_until_drop(st, name) ==
  IF st.stack = <<>> THEN st
  ELSE LET t == st.stack[Len(st.stack)]
           rest == SubSeq(st.stack, 1, Len(st.stack) - 1)
       IN IF name # NULL /\ strncmp_prefix(name, t.prefix)
            THEN [st EXCEPT !.stack = rest]
            ELSE vp_walker_stack_unwind_containers_until_drop(
                   [stack |-> rest,
                    calls |-> Append(st.calls,
                                     Call("obj_end", t.key, t.prefix, PeekPrefix(rest)))],
                   name)

\* vp_walker_stack_unwind_containers_until: frames are popped and closed with
\* obj_end until one has a prefix the name starts with (never, for NULL);
\* the value obj_end returns is not looked at
RECURSIVE vp_walker_stack_unwind_containers_until(_, _)
vp_walker_stack_unwind_containers_until(st, name) ==
  IF st.stack = <<>> THEN st
  ELSE LET t == st.stack[Len(st.stack)]
           rest == SubSeq(st.stack, 1, Len(st.stack) - 1)
       IN IF name # NULL /\ strncmp_prefix(name, t.prefix)
            THEN st
            ELSE vp_walker_stack_unwind_containers_until(
                   [stack |-> rest,
                    calls |-> Append(st.calls,
                                     Call("obj_end", t.key, t.prefix, PeekPrefix(rest)))],
                   name)

vp_walker_stack_unwind_all_containers(st) ==
  vp_walker_stack_unwind_containers_until(st, NULL)

\* variant: the loop passing over an empty token
RECURSIVE StartLoop_skip_empty(_, _, _)
StartLoop_skip_empty(st, tokens, i) ==
  IF i >= Len(tokens) THEN st
  ELSE IF tokens[i] = <<>> THEN StartLoop_skip_empty(st, tokens, i + 1)
  ELSE LET nt == [key |-> tokens[i],
                  prefix |-> vp_walker_name_combine_prefix(tokens, i)]
       IN StartLoop_skip_empty([stack |-> Append(st.stack, nt),
                                calls |-> Append(st.calls,
                                                 Call("obj_start", nt.key, nt.prefix,
                                                      PeekPrefix(st.stack)))],
                               tokens, i + 1)

\* the for loop of vp_walker_start_containers_for_name at token i (from 1):
\* a frame is pushed and opened with obj_start for every token but the last;
\* the value obj_start returns is not looked at
RECURSIVE StartLoop(_, _, _)
StartLoop(st, tokens, i) ==
  IF i >= Len(tokens) THEN st
  ELSE LET nt == [key |-> tokens[i],
                  prefix |-> vp_walker_name_combine_prefix(tokens, i)]
       IN StartLoop([stack |-> Append(st.stack, nt),
                     calls |-> Append(st.calls,
                                      Call("obj_start", nt.key, nt.prefix,
                                           PeekPrefix(st.stack)))],
                    tokens, i + 1)

\* vp_walker_start_containers_for_name: the loop starts at the height of the
\* stack; the last token is the key
vp_walker_start_containers_for_name(st, name) ==
  LET tokens == vp_walker_split_name_to_tokens(name)
      start == Len(st.stack)
  IN [st |-> StartLoop(st, tokens, start + 1), key |-> tokens[Len(tokens)]]

\* value_pairs_walker: the callbacks made for one node of the tree, the last
\* of them process_value, whose return value is the walker's
value_pairs_walker(stack, name) ==
  LET u == vp_walker_stack_unwind_containers_until([stack |-> stack, calls |-> <<>>],
                                                   name)
      s == vp_walker_start_containers_for_name(u, name)
  IN [stack |-> s.st.stack,
      calls |-> Append(s.st.calls,
                       Call("process_value", s.key, PeekPrefix(s.st.stack), NULL))]

\* bound: the number of name-value pairs of a walked message
MaxWalkKeys == 3

\* the name-value pairs the walked messages are made of: siblings below one
\* container, a name that shares its first character only, a single token,
\* a name with a leading dot, a name with '@' before a letter
WalkPairs ==
  << [name |-> <<"a",".","x">>, value |-> "1", sdata |-> FALSE],
     [name |-> <<"a","-","b",".","y">>, value |-> "2", sdata |-> FALSE],
     [name |-> <<"a",".","b",".","c">>, value |-> "3", sdata |-> FALSE],
     [name |-> <<"a",".","b",".","d">>, value |-> "4", sdata |-> FALSE],
     [name |-> <<"b">>, value |-> "5", sdata |-> FALSE],
     [name |-> <<".","s",".","k">>, value |-> "6", sdata |-> FALSE],
     [name |-> <<"z","@","a",".","q">>, value |-> "7", sdata |-> FALSE] >>

WalkMessages ==
  { [nv |-> SelectSeq(WalkPairs, LAMBDA e : e.name \in S), macros |-> NoMacros] :
      S \in { T \in SUBSET {WalkPairs[i].name : i \in 1..Len(WalkPairs)} :
                Cardinality(T) <= MaxWalkKeys } }

\* a callback made: the call and the value the consumer returned (TRUE
\* signals failure, as for the callback of value_pairs_foreach)
Event(call, ret) ==
  [kind |-> call.kind, key |-> call.key, prefix |-> call.prefix,
   parent |-> call.parent, ret |-> ret]

Events(calls, rets) == [i \in 1..Len(calls) |-> Event(calls[i], rets[i])]

\* value_pairs_walk up to the creation of the empty tree: the stack is
\* initialised, the outer obj_start is called (its value dropped) and
\* value_pairs_foreach_sorted is entered with value_pairs_walker and vp_walk_cmp
value_pairs_walk(m, ret) ==
  /\ pc = "idle"
  /\ walk' = [stack |-> <<>>,
              events |-> << Event(Call("obj_start", NULL, NULL, NULL), ret) >>]
  /\ pc' = "nv"
  /\ msg' = m
  /\ compare_func' = "vp_walk_cmp"
  /\ scope_set' = <<>>
  /\ idx' = 1
  /\ result' = TRUE
  /\ delivered' = <<>>
  /\ log' = <<>>
  /\ sbuf' = NoSb
  /\ UNCHANGED <<vp, ncalls, retval, prev, refs, scope_log, cmd, tok, dd, sd>>

\* g_tree_foreach visiting the next node with value_pairs_walker behind
\* vp_foreach_helper: the consumer returns a value from every callback made
WalkerCallback ==
  /\ pc = "foreach"
  /\ idx <= Len(scope_set)
  /\ LET w == value_pairs_walker(walk.stack, scope_set[idx].key)
     IN \E rets \in [1..Len(w.calls) -> BOOLEAN] :
          LET ret == rets[Len(w.calls)]
          IN /\ walk' = [stack |-> w.stack,
                         events |-> walk.events \o Events(w.calls, rets)]
             /\ delivered' = Append(delivered, [name |-> scope_set[idx].key,
                                                 type |-> scope_set[idx].type_hint,
                                                 value |-> scope_set[idx].str,
                                                 ret |-> ret])
             /\ result' = vp_foreach_helper(result, ret)
  /\ IF ~result' THEN pc' = "destroy" /\ idx' = idx
                 ELSE pc' = pc /\ idx' = idx + 1
  /\ UNCHANGED <<vp, ncalls, msg, compare_func, scope_set, retval, log, sbuf,
                 prev, refs, scope_log, cmd, tok, dd, sd>>

\* value_pairs_foreach_sorted returns result; value_pairs_walk unwinds every
\* container left, calls the outer obj_end and returns result
WalkReturn ==
  /\ pc = "destroy"
  /\ scope_set' = <<>>
  /\ LET u == vp_walker_stack_unwind_all_containers([stack |-> walk.stack,
                                                     calls |-> <<>>])
         calls == Append(u.calls, Call("obj_end", NULL, NULL, NULL))
     IN \E rets \in [1..Len(calls) -> BOOLEAN] :
          walk' = [stack |-> u.stack, events |-> walk.events \o Events(calls, rets)]
  /\ retval' = result
  /\ pc' = "done"
  /\ sbuf' = g_tree_destroy(scope_set, sbuf)
  /\ UNCHANGED <<vp, ncalls, msg, compare_func, idx, result, delivered, log,
                 prev, refs, scope_log, cmd, tok, dd, sd>>

\* the caller goes on to walk another message
WalkContinue ==
  /\ pc = "done"
  /\ pc' = "idle"
  /\ msg' = NoMsg
  /\ compare_func' = "strcmp"
  /\ idx' = 1
  /\ result' = TRUE
  /\ retval' = "none"
  /\ delivered' = <<>>
  /\ log' = <<>>
  /\ walk' = NoWalk
  /\ sbuf' = NoSb
  /\ UNCHANGED <<vp, ncalls, scope_set, prev, refs, scope_log, cmd, tok, dd, sd>>

\* an object with the scope all-nv-pairs, so that every name-value pair of
\* the message is a key of the output
WalkInit ==
  /\ OtherInit
  /\ vp = [value_pairs_new EXCEPT
             !.scopes = cfg_process_flag(value_pair_scope, 0, "all-nv-pairs").scopes]
  /\ ncalls = 0
  /\ pc = "idle"
  /\ msg = NoMsg
  /\ compare_func = "strcmp"
  /\ scope_set = <<>>
  /\ idx = 1
  /\ result = TRUE
  /\ retval = "none"
  /\ delivered = <<>>
  /\ log = <<>>
  /\ sbuf = NoSb

WalkNext ==
  \/ \E m \in WalkMessages, ret \in BOOLEAN : value_pairs_walk(m, ret)
  \/ PhaseNv
  \/ PhaseMacros
  \/ PhaseRfc3164
  \/ PhaseRfc5424
  \/ PhaseSelected
  \/ PhaseAllMacros
  \/ PhasePairs
  \/ WalkerCallback
  \/ ForeachEnd
  \/ WalkReturn
  \/ WalkContinue

WalkSpec == WalkInit /\ [][WalkNext]_vars

-----------------------------------------------------------------------------
(* Properties of the walker *)

\* the process_value callbacks made so far
WalkValues == SelectSeq(walk.events, LAMBDA e : e.kind = "process_value")

\* the containers and the outer object that the events so far leave open,
\* bottom first (the outer object counts with prefix NULL); ok is FALSE when
\* an obj_end does not close the innermost open one, or a callback is made
\* outside the outer object
RECURSIVE Replay(_, _, _)
Replay(events, i, open) ==
  IF i > Len(events) THEN [ok |-> TRUE, open |-> open]
  ELSE LET e == events[i]
       IN IF e.kind = "obj_start"
            THEN IF (open = <<>>) = (e.key = NULL) /\ (open = <<>>) = (i = 1)
                   THEN Replay(events, i + 1, Append(open, e.prefix))
                   ELSE [ok |-> FALSE, open |-> open]
          ELSE IF e.kind = "obj_end"
            THEN IF open # <<>> /\ open[Len(open)] = e.prefix
                      /\ (Len(open) = 1) = (e.key = NULL)
                   THEN Replay(events, i + 1, SubSeq(open, 1, Len(open) - 1))
                   ELSE [ok |-> FALSE, open |-> open]
          ELSE IF open # <<>> THEN Replay(events, i + 1, open)
          ELSE [ok |-> FALSE, open |-> open]

\* a walk is running or has just returned
Walking == walk.events # <<>>

\* C11: the events of a walk are well nested: the outer obj_start with NULL
\* key comes first, every obj_end closes the innermost open container, the
\* open containers are the frames of the stack, and when the walk returns
\* (also after a failing process_value) the outer obj_end with NULL key was
\* the last event and nothing is left open
C11_WalkerBalance ==
  Walking =>
    LET r == Replay(walk.events, 1, <<>>)
    IN /\ r.ok
       /\ pc # "done" =>
            r.open = <<NULL>> \o [i \in 1..Len(walk.stack) |-> walk.stack[i].prefix]
       /\ pc = "done" =>
            /\ r.open = <<>>
            /\ walk.stack = <<>>
            /\ walk.events[Len(walk.events)].kind = "obj_end"
            /\ walk.events[Len(walk.events)].key = NULL

\* C11 witness: a walk that a failing process_value halted while two
\* containers were open, and that has returned
C11_Witness ==
  /\ pc = "done" /\ retval = FALSE
  /\ Cardinality({i \in 1..Len(walk.events) :
                    walk.events[i].kind = "obj_end" /\ walk.events[i].key # NULL}) >= 2
  /\ Len(delivered) < Cardinality({log[i].key : i \in 1..Len(log)})

\* C12: every value is delivered with the last token of its key as the leaf
\* key and the '.'-join of the tokens before it as the parent prefix (NULL
\* for a key of one token)
C12_Original ==
  \A i \in 1..Len(WalkValues) :
    LET tokens == vp_walker_split_name_to_tokens(delivered[i].name)
        n == Len(tokens)
    IN /\ WalkValues[i].key = tokens[n]
       /\ WalkValues[i].prefix =
            IF n = 1 THEN NULL ELSE vp_walker_name_combine_prefix(tokens, n - 1)

\* C13: the process_value callbacks are, one for one and in order, the keys
\* of the output map in descending strcmp order, all of them when no
\* callback stopped the traversal
C13_WalkerOrder ==
  Walking =>
    /\ Len(WalkValues) = Len(delivered)
    /\ \A i \in 1..Len(delivered) :
         LET tokens == vp_walker_split_name_to_tokens(delivered[i].name)
         IN WalkValues[i].key = tokens[Len(tokens)]
    /\ \A i, j \in 1..Len(delivered) :
         i < j => strcmp(delivered[i].name, delivered[j].name) > 0
    /\ Built =>
         /\ \A i \in 1..Len(delivered) : delivered[i].name = scope_set[i].key
         /\ TreeKeys(scope_set) = {msg.nv[i].name : i \in 1..Len(msg.nv)}
    /\ (pc = "done" /\ retval = TRUE) =>
         {delivered[i].name : i \in 1..Len(delivered)} =
           {msg.nv[i].name : i \in 1..Len(msg.nv)}

\* C13 witness: a complete walk of three keys whose payload order is not
\* the order delivered
C13_Witness ==
  /\ pc = "done" /\ retval = TRUE
  /\ Len(WalkValues) = 3
  /\ \E i, j \in 1..Len(log) : i < j /\ strcmp(log[i].key, log[j].key) < 0

\* C14: once a consumer callback has signalled failure no further consumer
\* callback of any kind is invoked
C14_Original ==
  \A i, j \in 1..Len(walk.events) : (i < j) => ~walk.events[i].ret

\* C15: value_pairs_walk returns TRUE exactly when none of the obj_start,
\* process_value and obj_end callbacks signalled failure
C15_Original ==
  (Walking /\ pc = "done") =>
    (retval = (\A i \in 1..Len(walk.events) : ~walk.events[i].ret))

-----------------------------------------------------------------------------
(* Repeated evaluation of one object *)

\* bound: the number of finished evaluations kept for comparison
MaxPrev == 1

\* the two transform sets of TransformChoices, as a sequence in either order
TwoTransformSets ==
  LET t1 == CHOOSE t \in TransformChoices : Len(t.funcs) = 1
      t2 == CHOOSE t \in TransformChoices : Len(t.funcs) = 2
  IN { <<t1, t2>>, <<t2, t1>> }

\* the objects evaluated repeatedly: value_pairs_new_default, the rfc3164
\* scope alone, the rfc3164 scope with a typed explicit pair, and the
\* nv-pairs, dot-nv-pairs and rfc3164 scopes with an explicit pair and two
\* transform sets added in either order
EvalConfigs ==
  LET scoped(names) ==
        [value_pairs_new EXCEPT
           !.scopes = SumSet(UNION {BitsOf(value_pair_scope[n]) : n \in names})]
      pair == [name |-> N_k,
               template |-> [kind |-> "literal", arg |-> "5",
                             type_hint |-> "TYPE_HINT_INT32"]]
  IN { scoped({"selected-macros", "nv-pairs", "sdata"}),
       scoped({"rfc3164"}),
       [scoped({"rfc3164"}) EXCEPT !.vpairs = <<pair>>] }
     \cup { [scoped({"nv-pairs", "dot-nv-pairs", "rfc3164"}) EXCEPT
               !.vpairs = <<pair>>, !.transforms = ts] : ts \in TwoTransformSets }

EvalInit ==
  /\ OtherInit
  /\ vp \in EvalConfigs
  /\ ncalls = 0
  /\ pc = "idle"
  /\ msg = NoMsg
  /\ compare_func = "strcmp"
  /\ scope_set = <<>>
  /\ idx = 1
  /\ result = TRUE
  /\ retval = "none"
  /\ delivered = <<>>
  /\ log = <<>>
  /\ sbuf = NoSb

\* the caller keeps what the finished evaluation delivered and evaluates again
EvalContinue ==
  /\ pc = "done"
  /\ Len(prev) < MaxPrev
  /\ prev' = Append(prev, [vp |-> vp, msg |-> msg, delivered |-> delivered,
                           retval |-> retval])
  /\ pc' = "idle"
  /\ msg' = NoMsg
  /\ idx' = 1
  /\ result' = TRUE
  /\ retval' = "none"
  /\ delivered' = <<>>
  /\ log' = <<>>
  /\ sbuf' = NoSb
  /\ UNCHANGED <<vp, ncalls, compare_func, scope_set, walk, refs, scope_log, cmd, tok, dd, sd>>

EvalNext ==
  \/ \E m \in Messages : value_pairs_foreach(m)
  \/ PhaseNv
  \/ PhaseMacros
  \/ PhaseRfc3164
  \/ PhaseRfc5424
  \/ PhaseSelected
  \/ PhaseAllMacros
  \/ PhasePairs
  \/ \E ret \in BOOLEAN : Callback(ret)
  \/ ForeachEnd
  \/ Return
  \/ EvalContinue

EvalSpec == EvalInit /\ [][EvalNext]_vars

\* the values a consumer returned, in call order
Rets(d) == [i \in 1..Len(d) |-> d[i].ret]

\* C16: an evaluation leaves the object as it was, and two evaluations of
\* one object on one message, with a consumer that answers alike, deliver
\* the same events (name, type hint, value) and return the same result
C16_Original ==
  \A i \in 1..Len(prev) :
    /\ vp = prev[i].vp
    /\ (pc = "done" /\ msg = prev[i].msg /\ Rets(delivered) = Rets(prev[i].delivered)) =>
         /\ delivered = prev[i].delivered
         /\ retval = prev[i].retval

\* the key after the first n transform sets of the object, each set applied
\* to the key the sets before it produced
RECURSIVE KeyAfter(_, _)
KeyAfter(n, name) ==
  IF n = 0 THEN name
  ELSE value_pairs_transform_set_apply(vp.transforms[n].funcs, KeyAfter(n - 1, name))

\* C24: the key of every insertion, whatever its phase, is the name taken
\* through all the transform sets of the object in the order they were
\* added, each set applied to the result of the one before and whatever its
\* base key is; with no transform set the key is the name
C24_TransformChain ==
  /\ \A i \in 1..Len(log) :
       /\ log[i].key = KeyAfter(Len(vp.transforms), log[i].name)
       /\ (vp.transforms = <<>>) => (log[i].key = log[i].name)
  /\ TreeKeys(scope_set) \subseteq {log[i].key : i \in 1..Len(log)}

\* C24 witness: a finished evaluation under two transform sets whose
\* insertions come from the message pairs, a macro table and the explicit
\* pairs, one of them under a key that the two sets only give in this order,
\* one under a key that no base key of the sets matches
C24_Witness ==
  /\ pc = "done"
  /\ Len(vp.transforms) = 2
  /\ LogIdx("nv") # {} /\ LogIdx("pairs") # {}
  /\ \E i \in 1..Len(log) : log[i].phase \notin {"nv", "pairs"}
  /\ \E i \in 1..Len(log) :
       /\ log[i].key # log[i].name
       /\ log[i].key # value_pairs_transform_set_apply(vp.transforms[1].funcs,
                          value_pairs_transform_set_apply(vp.transforms[2].funcs,
                                                          log[i].name))
  /\ \E i \in 1..Len(log) :
       /\ log[i].name[1] # "."
       /\ log[i].key # log[i].name

-----------------------------------------------------------------------------
(* Reference counting *)

MaxRefs == 5

\* bound: the calls made with a NULL argument
MaxNullCalls == 2

\* a call with a NULL argument has ended the process
Faulted == \E i \in 1..Len(refs.null_calls) : refs.null_calls[i].outcome = "fault"

\* value_pairs_ref: the assertion, then the atomic increment
value_pairs_ref(self) ==
  [self    |-> [self EXCEPT !.ref_cnt = @ + 1],
   aborted |-> ~(self.ref_cnt > 0)]

\* as value_pairs_unref, freeing when one reference is still left
value_pairs_unref_early(self) ==
  [self    |-> [self EXCEPT !.ref_cnt = @ - 1],
   free    |-> self.ref_cnt - 1 <= 1,
   aborted |-> ~(self.ref_cnt # 0)]

\* value_pairs_unref: the assertion, then g_atomic_counter_dec_and_test;
\* free says whether value_pairs_free is called
value_pairs_unref(self) ==
  [self    |-> [self EXCEPT !.ref_cnt = @ - 1],
   free    |-> self.ref_cnt - 1 = 0,
   aborted |-> ~(self.ref_cnt # 0)]

\* holder h, owning a reference, takes one more and hands it to holder g
Ref(h, g) ==
  /\ refs.held[h] > 0
  /\ ~refs.aborted
  /\ ~Faulted
  /\ refs.nref < MaxRefs
  /\ LET r == value_pairs_ref(vp)
     IN /\ vp' = r.self
        /\ refs' = [refs EXCEPT !.held[g] = @ + 1,
                                !.nref = @ + 1,
                                !.aborted = r.aborted]
  /\ UNCHANGED <<evalVars, ncalls, walk, prev, scope_log, cmd, tok, dd, sd>>

\* holder h gives up one of its references
Unref(h) ==
  /\ refs.held[h] > 0
  /\ ~refs.aborted
  /\ ~Faulted
  /\ LET r == value_pairs_unref(vp)
     IN /\ vp' = r.self
        /\ refs' = [refs EXCEPT !.held[h] = @ - 1,
                                !.nunref = @ + 1,
                                !.freed = IF r.free THEN @ + 1 ELSE @,
                                !.aborted = r.aborted]
  /\ UNCHANGED <<evalVars, ncalls, walk, prev, scope_log, cmd, tok, dd, sd>>

\* value_pairs_ref(NULL): the assertion holds for NULL (!self), the
\* increment is under if (self), NULL is returned
value_pairs_ref_null ==
  [fn |-> "value_pairs_ref", deref |-> FALSE, outcome |-> "returned"]

\* what a build can do at an atomic decrement through a NULL pointer: the
\* process is ended by the fault (at the decrement or, when the stray word
\* reaches zero, in value_pairs_free(NULL)), or the word at the offset of
\* ref_cnt from address zero is decremented and the call returns
NullDerefOutcomes == {"fault", "stray_write"}

\* value_pairs_unref(NULL): the assertion holds for NULL (!self), then
\* g_atomic_counter_dec_and_test(&self->ref_cnt) is reached with no test of
\* self
value_pairs_unref_null(outcome) ==
  [fn |-> "value_pairs_unref", deref |-> TRUE, outcome |-> outcome]

\* a caller passes NULL to value_pairs_ref
RefNull ==
  /\ ~refs.aborted
  /\ ~Faulted
  /\ Len(refs.null_calls) < MaxNullCalls
  /\ refs' = [refs EXCEPT !.null_calls = Append(@, value_pairs_ref_null)]
  /\ UNCHANGED <<vp, evalVars, ncalls, walk, prev, scope_log, cmd, tok, dd, sd>>

\* a caller passes NULL to value_pairs_unref
UnrefNull(outcome) ==
  /\ ~refs.aborted
  /\ ~Faulted
  /\ Len(refs.null_calls) < MaxNullCalls
  /\ refs' = [refs EXCEPT !.null_calls = Append(@, value_pairs_unref_null(outcome))]
  /\ UNCHANGED <<vp, evalVars, ncalls, walk, prev, scope_log, cmd, tok, dd, sd>>

RefNext ==
  \/ \E h, g \in Holders : Ref(h, g)
  \/ \E h \in Holders : Unref(h)
  \/ RefNull
  \/ \E outcome \in NullDerefOutcomes : UnrefNull(outcome)

RefSpec == Init /\ [][RefNext]_vars

\* C17: after n value_pairs_ref and m value_pairs_unref calls by holders of
\* the object, value_pairs_free has run iff m = n + 1, it has run at most
\* once, no assertion failed, and while any holder still owns a reference
\* the object has not been freed
C17_RefLifecycle ==
  /\ refs.freed \in {0, 1}
  /\ (refs.freed = 1) <=> (refs.nunref = refs.nref + 1)
  /\ ~refs.aborted
  /\ \A h \in Holders : refs.held[h] > 0 => refs.freed = 0
  /\ vp.ref_cnt = 1 + refs.nref - refs.nunref

\* the object was shared by two other holders and freed by the last unref
C17_Witness ==
  /\ refs.freed = 1
  /\ refs.nref >= 2
  /\ refs.nunref = refs.nref + 1
  /\ vp.ref_cnt = 0

\* C30: a call of value_pairs_ref or value_pairs_unref with NULL does not
\* dereference its argument and changes nothing: it only returns
C30_Original ==
  \A i \in 1..Len(refs.null_calls) :
    /\ ~refs.null_calls[i].deref
    /\ refs.null_calls[i].outcome = "returned"

-----------------------------------------------------------------------------
(* Scopes *)

MaxScopeCalls == 3

\* scope names that are not in value_pair_scope[]
UnknownScopes == {"bogus", ""}

\* one value_pairs_add_scope call and what it returned
ScopeEntry(scope, ok, before, after) ==
  [scope |-> scope, ok |-> ok, before |-> before, after |-> after]

\* as ScopeCall, storing the bits of the name over the field
ScopeCall_replace(scope) ==
  /\ Len(scope_log) < MaxScopeCalls
  /\ LET r == cfg_process_flag(value_pair_scope, 0, scope)
     IN /\ vp' = [vp EXCEPT !.scopes = r.scopes]
        /\ scope_log' = Append(scope_log, ScopeEntry(scope, r.ok, vp.scopes, r.scopes))
  /\ UNCHANGED <<evalVars, ncalls, walk, prev, refs, cmd, tok, dd, sd>>

\* value_pairs_add_scope, its return value kept
ScopeCall(scope) ==
  /\ Len(scope_log) < MaxScopeCalls
  /\ LET r == cfg_process_flag(value_pair_scope, vp.scopes, scope)
     IN /\ vp' = [vp EXCEPT !.scopes = r.scopes]
        /\ scope_log' = Append(scope_log, ScopeEntry(scope, r.ok, vp.scopes, r.scopes))
  /\ UNCHANGED <<evalVars, ncalls, walk, prev, refs, cmd, tok, dd, sd>>

\* the three value_pairs_add_scope calls of value_pairs_new_default
DefaultScopes == <<"selected-macros", "nv-pairs", "sdata">>

\* value_pairs_new_default: a new object and three value_pairs_add_scope calls
value_pairs_new_default ==
  /\ scope_log = <<>>
  /\ Len(DefaultScopes) <= MaxScopeCalls
  /\ LET r1 == cfg_process_flag(value_pair_scope, value_pairs_new.scopes, DefaultScopes[1])
         r2 == cfg_process_flag(value_pair_scope, r1.scopes, DefaultScopes[2])
         r3 == cfg_process_flag(value_pair_scope, r2.scopes, DefaultScopes[3])
     IN /\ vp' = [value_pairs_new EXCEPT !.scopes = r3.scopes]
        /\ scope_log' = << ScopeEntry(DefaultScopes[1], r1.ok, value_pairs_new.scopes, r1.scopes),
                           ScopeEntry(DefaultScopes[2], r2.ok, r1.scopes, r2.scopes),
                           ScopeEntry(DefaultScopes[3], r3.ok, r2.scopes, r3.scopes) >>
  /\ UNCHANGED <<evalVars, ncalls, walk, prev, refs, cmd, tok, dd, sd>>

ScopeNext ==
  \/ \E scope \in ScopeNames \cup UnknownScopes : ScopeCall(scope)
  \/ value_pairs_new_default

ScopeSpec == Init /\ [][ScopeNext]_vars

\* the bits of the recognised names among the first n calls
GivenBits(n) ==
  UNION { BitsOf(value_pair_scope[scope_log[i].scope]) :
            i \in {j \in 1..n : scope_log[j].scope \in DOMAIN value_pair_scope} }

\* C18: the mask is the OR of the bits of the recognised names given so far,
\* no call clears a bit, a call with an unrecognised name returns FALSE and
\* leaves the mask, and the calls of value_pairs_new_default give 0x61
C18_ScopesAdditive ==
  /\ vp.scopes = SumSet(GivenBits(Len(scope_log)))
  /\ \A i \in 1..Len(scope_log) :
       LET e == scope_log[i]
       IN /\ e.after = SumSet(GivenBits(i))
          /\ BitsOf(e.before) \subseteq BitsOf(e.after)
          /\ e.ok <=> e.scope \in DOMAIN value_pair_scope
          /\ ~e.ok => e.after = e.before
  /\ [i \in 1..Len(scope_log) |-> scope_log[i].scope] = DefaultScopes => vp.scopes = 97

\* a recognised name, an unrecognised one after it, and a second recognised
\* one whose bit joins the first
C18_Witness ==
  /\ Len(scope_log) = 3
  /\ scope_log[1].ok /\ scope_log[1].after = VPS_RFC3164
  /\ ~scope_log[2].ok
  /\ scope_log[3].ok /\ scope_log[3].scope = "sdata"
  /\ vp.scopes = VPS_RFC3164 + VPS_SDATA

-----------------------------------------------------------------------------
(* The command line parser: value_pairs_new_from_cmdline *)

MaxArgs == 4

\* strchr(s, c) # NULL
HasChar(s, c) == InSeq(s, c)

\* g_strsplit(s, d, max) for a one-character delimiter; max < 1: no limit
RECURSIVE SplitFields(_, _, _)
SplitFields(s, d, max) ==
  IF max = 1 \/ ~HasChar(s, d) THEN << s >>
  ELSE LET i == CHOOSE j \in 1..Len(s) : s[j] = d /\ \A k \in 1..(j - 1) : s[k] # d
       IN << SubSeq(s, 1, i - 1) >> \o SplitFields(SubSeq(s, i + 1, Len(s)), d, max - 1)
g_strsplit(s, d, max) == IF s = <<>> THEN <<>> ELSE SplitFields(s, d, max)

\* the first position >= pos whose character is not in the class
RECURSIVE SkipWhile(_, _, _)
SkipWhile(spec, pos, class) ==
  IF At(spec, pos) \in class THEN SkipWhile(spec, pos + 1, class) ELSE pos

AlnumOrUnderscore ==
  {Upper[i] : i \in 1..Len(Upper)} \cup {Lower[i] : i \in 1..Len(Lower)}
    \cup {Digits[i] : i \in 1..Len(Digits)} \cup {"_"}

\* value_pairs_parse_type: "type(value)" gives the type and the value, any
\* other text gives the text as the value and no type
value_pairs_parse_type(spec) ==
  LET sp == SkipWhile(spec, SkipWhile(spec, 0, AlnumOrUnderscore), {" ", "\t"})
      first == At(spec, 0)
      closing == {j \in sp..(Len(spec) - 1) : At(spec, j) = ")"}
      ep == CHOOSE j \in closing : \A k \in closing : j <= k
  IN IF At(spec, sp) # "(" \/
        ~(InSeq(Upper, first) \/ InSeq(Lower, first) \/ first = "_")
       THEN [value |-> spec, type |-> NULL]
     ELSE IF closing = {} \/ ep # Len(spec) - 1
       THEN [value |-> spec, type |-> NULL]
     ELSE [value |-> SubSeq(spec, sp + 2, ep),
           type |-> SubSeq(spec, 1, sp)]

\* log_template_compile: the texts it rejects
BadTemplates == { <<"$", "(">> }
log_template_compile(v) == v \notin BadTemplates

\* log_template_set_type_hint: no type is a string, a known type name gives
\* its hint, any other name is rejected
TypeNames ==
  [t \in { <<"s","t","r","i","n","g">>, <<"i","n","t">> } |->
     IF t = <<"i","n","t">> THEN "TYPE_HINT_INT32" ELSE "TYPE_HINT_STRING"]
log_template_set_type_hint(t) ==
  IF t = NULL THEN [ok |-> TRUE, type_hint |-> "TYPE_HINT_STRING"]
  ELSE IF t \in DOMAIN TypeNames THEN [ok |-> TRUE, type_hint |-> TypeNames[t]]
  ELSE [ok |-> FALSE, type_hint |-> "TYPE_HINT_STRING"]

\* atoi of a string of digits
RECURSIVE atoi(_)
atoi(s) ==
  IF s = <<>> \/ ~isdigit(s[1]) THEN 0
  ELSE LET n == Len(SubSeq(s, 1, SkipWhile(s, 0, {Digits[i] : i \in 1..Len(Digits)})))
       IN IF n = 1 THEN IndexOf(Digits, s[1]) - 1
          ELSE 10 * atoi(SubSeq(s, 1, n - 1)) + IndexOf(Digits, s[n]) - 1

\* user_data_args[] of the parser: [1] the object, [2] the open transform
\* set (none or one), [3] the key of the open context (NULL or a copy);
\* nsets counts the transform sets created so far
Args == [vp |-> vp, vpts |-> cmd.vpts, key |-> cmd.key, nsets |-> cmd.nsets]

\* as vp_cmdline_parse_rekey_finish, leaving args[3]
vp_cmdline_parse_rekey_finish_keep(a) ==
  [a EXCEPT !.vp = IF a.vpts # <<>>
                     THEN [a.vp EXCEPT !.transforms = Append(@, a.vpts[1])]
                     ELSE @,
            !.vpts = <<>>]

\* vp_cmdline_parse_rekey_finish: the open transform set, if any, goes to
\* the object (value_pairs_add_transforms); args[2] and args[3] become NULL
vp_cmdline_parse_rekey_finish(a) ==
  [a EXCEPT !.vp = IF a.vpts # <<>>
                     THEN [a.vp EXCEPT !.transforms = Append(@, a.vpts[1])]
                     ELSE @,
            !.vpts = <<>>,
            !.key = NULL]

\* the loop of vp_cmdline_parse_scope over the split value
RECURSIVE ScopeLoop(_, _, _)
ScopeLoop(v, scopes, i) ==
  IF i > Len(scopes) THEN [vp |-> v, ok |-> TRUE]
  ELSE LET r == cfg_process_flag(value_pair_scope, v.scopes, scopes[i])
       IN IF ~r.ok THEN [vp |-> v, ok |-> FALSE]
          ELSE ScopeLoop([v EXCEPT !.scopes = r.scopes], scopes, i + 1)

\* the loops of vp_cmdline_parse_exclude and vp_cmdline_parse_key
RECURSIVE GlobLoop(_, _, _, _)
GlobLoop(v, globs, i, include) ==
  IF i > Len(globs) THEN v
  ELSE GlobLoop([v EXCEPT !.patterns = Append(@, vp_pattern_spec_new(globs[i], include))],
                globs, i + 1, include)

\* vp_cmdline_parse_scope; the value is given as its comma-separated names
vp_cmdline_parse_scope(a, value) ==
  LET b == vp_cmdline_parse_rekey_finish(a)
      r == ScopeLoop(b.vp, value, 1)
  IN [a |-> [b EXCEPT !.vp = r.vp], ok |-> r.ok]

vp_cmdline_parse_exclude(a, value) ==
  LET b == vp_cmdline_parse_rekey_finish(a)
  IN [a |-> [b EXCEPT !.vp = GlobLoop(b.vp, g_strsplit(value, ",", 0), 1, FALSE)],
      ok |-> TRUE]

\* variant: vp_cmdline_start_key without finishing the open context
vp_cmdline_start_key_open(a, key) == [a EXCEPT !.key = key]

\* vp_cmdline_start_key: the open context is finished, the key kept in args[3]
vp_cmdline_start_key(a, key) ==
  [vp_cmdline_parse_rekey_finish(a) EXCEPT !.key = key]

vp_cmdline_parse_key(a, value) ==
  LET b == vp_cmdline_start_key(a, value)
  IN [a |-> [b EXCEPT !.vp = GlobLoop(b.vp, g_strsplit(value, ",", 0), 1, TRUE)],
      ok |-> TRUE]

vp_cmdline_parse_rekey(a, value) ==
  [a |-> vp_cmdline_start_key(a, value), ok |-> TRUE]

vp_cmdline_parse_pair(a, value) ==
  LET b == vp_cmdline_parse_rekey_finish(a)
      kv == g_strsplit(value, "=", 2)
      vt == value_pairs_parse_type(kv[2])
      hint == log_template_set_type_hint(vt.type)
      template == [kind |-> "literal", arg |-> vt.value, type_hint |-> hint.type_hint]
  IN IF ~HasChar(value, "=") THEN [a |-> b, ok |-> FALSE]
     ELSE IF ~log_template_compile(vt.value) THEN [a |-> b, ok |-> FALSE]
     ELSE IF ~hint.ok THEN [a |-> b, ok |-> FALSE]
     ELSE [a |-> [b EXCEPT !.vp.vpairs = Append(@, [name |-> kv[1], template |-> template])],
           ok |-> TRUE]

vp_cmdline_parse_pair_or_key(a, value) ==
  IF ~HasChar(value, "=") THEN vp_cmdline_parse_key(a, value)
  ELSE vp_cmdline_parse_pair(a, value)

\* vp_cmdline_rekey_verify: the open set, or a new one for the open key, or
\* none; a new set becomes args[2] and the key is given up
vp_cmdline_rekey_verify(a) ==
  IF a.vpts = <<>>
    THEN IF a.key = NULL THEN a
         ELSE LET vpts == [id |-> a.nsets + 1, key |-> a.key, funcs |-> <<>>]
              IN [vp_cmdline_parse_rekey_finish(a) EXCEPT !.vpts = << vpts >>,
                                                          !.nsets = @ + 1]
    ELSE a

\* value_pairs_transform_set_add_func on the open set
AddFunc(a, func) == [a EXCEPT !.vpts[1].funcs = Append(@, func)]

vp_cmdline_parse_rekey_replace_prefix(a, value) ==
  LET b == vp_cmdline_rekey_verify(a)
      kv == g_strsplit(value, "=", 2)
  IN IF b.vpts = <<>> THEN [a |-> b, ok |-> FALSE]
     ELSE IF ~HasChar(value, "=") THEN [a |-> b, ok |-> FALSE]
     ELSE [a |-> AddFunc(b, [type |-> "replace_prefix", old |-> kv[1], new |-> kv[2]]),
           ok |-> TRUE]

vp_cmdline_parse_rekey_add_prefix(a, value) ==
  LET b == vp_cmdline_rekey_verify(a)
  IN IF b.vpts = <<>> THEN [a |-> b, ok |-> FALSE]
     ELSE [a |-> AddFunc(b, [type |-> "add_prefix", prefix |-> value]), ok |-> TRUE]

vp_cmdline_parse_rekey_shift(a, value) ==
  LET b == vp_cmdline_rekey_verify(a)
  IN IF b.vpts = <<>> THEN [a |-> b, ok |-> FALSE]
     ELSE [a |-> AddFunc(b, [type |-> "shift", amount |-> atoi(value)]), ok |-> TRUE]

\* value_pairs_free: the transform sets freed with the object, in order
value_pairs_free(v) == [i \in 1..Len(v.transforms) |-> v.transforms[i].id]

\* the option values tried, by option
CmdValues ==
  [ scope |-> { << "rfc3164" >>, << "sdata", "bogus" >> },
    exclude |-> { <<"x", "*">> },
    key |-> { <<"a", ",", "b">> },
    rekey |-> { <<".", "*">> },
    pair |-> { <<"k", "=", "v">>, <<"k">>,
               <<"k", "=", "i", "n", "t", "(", "5", ")">>,
               <<"k", "=", "b", "a", "d", "(", "5", ")">>,
               <<"k", "=", "$", "(">> },
    remaining |-> { <<"h">>, <<"p", "=", "q">> },
    shift |-> { <<"1">> },
    add_prefix |-> { <<"x">> },
    replace_prefix |-> { <<"a", "=", "b">>, <<"a">> } ]

\* value_pairs_new_from_cmdline up to g_option_context_parse
value_pairs_new_from_cmdline ==
  /\ cmd.pc = "idle"
  /\ vp' = value_pairs_new
  /\ refs' = NoRefs
  /\ cmd' = [NoCmd EXCEPT !.pc = "parsing"]
  /\ UNCHANGED <<evalVars, ncalls, walk, prev, scope_log, tok, dd, sd>>

\* g_option_context_parse hands the next argument to its handler, whose
\* outcome is r; it stops at the first handler that fails
ParseArg(opt, value, r) ==
  /\ cmd.pc = "parsing"
  /\ cmd.success
  /\ Len(cmd.seen) < MaxArgs
  /\ vp' = r.a.vp
  /\ cmd' = [cmd EXCEPT !.seen = Append(@, [opt |-> opt, value |-> value, ok |-> r.ok]),
                        !.vpts = r.a.vpts,
                        !.key = r.a.key,
                        !.nsets = r.a.nsets,
                        !.success = r.ok]
  /\ UNCHANGED <<evalVars, ncalls, walk, prev, refs, scope_log, tok, dd, sd>>

OptScope(value) == ParseArg("scope", value, vp_cmdline_parse_scope(Args, value))
OptExclude(value) == ParseArg("exclude", value, vp_cmdline_parse_exclude(Args, value))
OptKey(value) == ParseArg("key", value, vp_cmdline_parse_key(Args, value))
OptRekey(value) == ParseArg("rekey", value, vp_cmdline_parse_rekey(Args, value))
OptPair(value) == ParseArg("pair", value, vp_cmdline_parse_pair(Args, value))
OptRemaining(value) ==
  ParseArg("remaining", value, vp_cmdline_parse_pair_or_key(Args, value))
OptShift(value) == ParseArg("shift", value, vp_cmdline_parse_rekey_shift(Args, value))
OptAddPrefix(value) ==
  ParseArg("add-prefix", value, vp_cmdline_parse_rekey_add_prefix(Args, value))
OptReplacePrefix(value) ==
  ParseArg("replace-prefix", value, vp_cmdline_parse_rekey_replace_prefix(Args, value))

\* as CmdReturn, returning the object whatever g_option_context_parse said
CmdReturn_always ==
  /\ cmd.pc = "parsing"
  /\ LET b == vp_cmdline_parse_rekey_finish(Args)
     IN /\ vp' = b.vp
        /\ refs' = refs
        /\ cmd' = [cmd EXCEPT !.pc = "returned", !.vpts = b.vpts, !.key = b.key,
                              !.ret = "vp"]
  /\ UNCHANGED <<evalVars, ncalls, walk, prev, scope_log, tok, dd, sd>>

\* value_pairs_new_from_cmdline after g_option_context_parse: the open
\* context is finished; on failure the object is unreferenced and NULL
\* returned
CmdReturn ==
  /\ cmd.pc = "parsing"
  /\ LET b == vp_cmdline_parse_rekey_finish(Args)
         r == value_pairs_unref(b.vp)
     IN IF cmd.success
          THEN /\ vp' = b.vp
               /\ refs' = refs
               /\ cmd' = [cmd EXCEPT !.pc = "returned", !.vpts = b.vpts, !.key = b.key,
                                     !.ret = "vp"]
          ELSE /\ vp' = r.self
               /\ refs' = [refs EXCEPT !.held[1] = @ - 1,
                                       !.nunref = @ + 1,
                                       !.freed = IF r.free THEN @ + 1 ELSE @,
                                       !.aborted = r.aborted]
               /\ cmd' = [cmd EXCEPT !.pc = "returned", !.vpts = b.vpts, !.key = b.key,
                                     !.ret = "NULL",
                                     !.set_frees = IF r.free
                                                     THEN @ \o value_pairs_free(b.vp)
                                                     ELSE @]
  /\ UNCHANGED <<evalVars, ncalls, walk, prev, scope_log, tok, dd, sd>>

CmdNext ==
  \/ value_pairs_new_from_cmdline
  \/ \E value \in CmdValues.scope : OptScope(value)
  \/ \E value \in CmdValues.exclude : OptExclude(value)
  \/ \E value \in CmdValues.key : OptKey(value)
  \/ \E value \in CmdValues.rekey : OptRekey(value)
  \/ \E value \in CmdValues.pair : OptPair(value)
  \/ \E value \in CmdValues.remaining : OptRemaining(value)
  \/ \E value \in CmdValues.shift : OptShift(value)
  \/ \E value \in CmdValues.add_prefix : OptAddPrefix(value)
  \/ \E value \in CmdValues.replace_prefix : OptReplacePrefix(value)
  \/ CmdReturn

CmdSpec == Init /\ [][CmdNext]_vars

-----------------------------------------------------------------------------
(* Properties of the command line parser *)

TransformOpts == {"shift", "add-prefix", "replace-prefix"}

\* the argument opens a rekey context: --key, --rekey or a positional key
OpensContext(e) ==
  e.opt \in {"key", "rekey"} \/ (e.opt = "remaining" /\ ~InSeq(e.value, "="))

\* the argument closes it: --scope, --exclude, --pair or a positional pair
ClosesContext(e) ==
  e.opt \in {"scope", "exclude", "pair"} \/ (e.opt = "remaining" /\ InSeq(e.value, "="))

\* a context is open when argument i is reached
ContextOpen(i) ==
  \E j \in 1..(i - 1) :
    /\ OpensContext(cmd.seen[j])
    /\ \A k \in (j + 1)..(i - 1) : ~ClosesContext(cmd.seen[k])

\* C19 as stated: a transform option is accepted iff a rekey context is open
C19_Original ==
  \A i \in 1..Len(cmd.seen) :
    cmd.seen[i].opt \in TransformOpts => (cmd.seen[i].ok <=> ContextOpen(i))

\* C19: a transform option is accepted iff a rekey context is open and, for
\* --replace-prefix, its argument contains '='; so a transform option given
\* first, or after an argument that closed the context, fails the parse
C19_RekeyContext ==
  \A i \in 1..Len(cmd.seen) :
    LET e == cmd.seen[i]
    IN e.opt \in TransformOpts =>
         /\ e.ok <=> (ContextOpen(i) /\ (e.opt = "replace-prefix" => InSeq(e.value, "=")))
         /\ ~e.ok => ~cmd.success

\* a key opened the context, a transform option was accepted in it, a pair
\* closed it, and the transform option after the pair was rejected
C19_Witness ==
  /\ Len(cmd.seen) = 4
  /\ cmd.seen[1].opt = "key"
  /\ cmd.seen[2].opt = "shift" /\ cmd.seen[2].ok
  /\ cmd.seen[3].opt = "pair" /\ cmd.seen[3].ok
  /\ cmd.seen[4].opt = "shift" /\ ~cmd.seen[4].ok
  /\ cmd.pc = "returned" /\ cmd.ret = "NULL"

\* the causes of failure of an argument, from its text and position
ShouldFail(i) ==
  LET e == cmd.seen[i]
      text == SubSeq(e.value, 3, Len(e.value))
  IN \/ e.opt = "scope" /\ \E n \in 1..Len(e.value) : e.value[n] \notin ScopeNames
     \/ e.opt = "pair" /\ ~InSeq(e.value, "=")
     \/ e.opt = "pair" /\ text = <<"$", "(">>
     \/ e.opt = "pair" /\ text = <<"b", "a", "d", "(", "5", ")">>
     \/ e.opt = "replace-prefix" /\ ~InSeq(e.value, "=")
     \/ e.opt \in TransformOpts /\ ~ContextOpen(i)

Occurrences(seq, x) == Cardinality({i \in 1..Len(seq) : seq[i] = x})

\* C20: once value_pairs_new_from_cmdline has returned, it returned NULL iff
\* an argument failed, and every argument with a cause of failure did fail;
\* with NULL the object was freed once and every transform set created was
\* freed once, the one open at the error included; otherwise nothing was
\* freed and the object holds every set created; nothing is freed earlier
C20_NoPartialProjection ==
  /\ \A i \in 1..Len(cmd.seen) : ShouldFail(i) <=> ~cmd.seen[i].ok
  /\ cmd.pc = "parsing" => refs.freed = 0 /\ cmd.set_frees = <<>>
  /\ cmd.pc = "returned" =>
       /\ cmd.ret = "NULL" <=> \E i \in 1..Len(cmd.seen) : ~cmd.seen[i].ok
       /\ cmd.ret = "NULL" =>
            /\ refs.freed = 1
            /\ \A id \in 1..cmd.nsets : Occurrences(cmd.set_frees, id) = 1
       /\ cmd.ret # "NULL" =>
            /\ cmd.ret = "vp"
            /\ refs.freed = 0
            /\ cmd.set_frees = <<>>
            /\ \A id \in 1..cmd.nsets : Occurrences(value_pairs_free(vp), id) = 1

\* --replace-prefix without '=' failed after its transform set was created
\* for the open key: NULL was returned and the set freed with the object
C20_Witness ==
  /\ cmd.pc = "returned"
  /\ cmd.ret = "NULL"
  /\ Len(cmd.seen) = 2
  /\ cmd.seen[2].opt = "replace-prefix" /\ ~cmd.seen[2].ok
  /\ cmd.nsets = 1
  /\ cmd.set_frees = << 1 >>
  /\ refs.freed = 1

\* the number of transform options that follow argument j directly
RECURSIVE StepRun(_)
StepRun(j) ==
  IF j + 1 <= Len(cmd.seen) /\ cmd.seen[j + 1].opt \in TransformOpts
    THEN 1 + StepRun(j + 1)
    ELSE 0

\* the transform step an option asks for
StepOf(e) ==
  CASE e.opt = "shift" -> [type |-> "shift", amount |-> atoi(e.value)]
    [] e.opt = "add-prefix" -> [type |-> "add_prefix", prefix |-> e.value]
    [] OTHER -> LET kv == g_strsplit(e.value, "=", 2)
                IN [type |-> "replace_prefix", old |-> kv[1], new |-> kv[2]]

\* the contexts opened from argument j on that were given a step, in the
\* order they were opened, each with its key and its steps in argument order
RECURSIVE ContextsFrom(_)
ContextsFrom(j) ==
  IF j > Len(cmd.seen) THEN <<>>
  ELSE (IF OpensContext(cmd.seen[j]) /\ StepRun(j) > 0
          THEN << [key |-> cmd.seen[j].value,
                   funcs |-> [n \in 1..StepRun(j) |-> StepOf(cmd.seen[j + n])]] >>
          ELSE <<>>)
       \o ContextsFrom(j + 1)

\* a context with steps is still open: the last argument was a transform option
ContextOpenNow ==
  /\ cmd.pc = "parsing"
  /\ Len(cmd.seen) > 0
  /\ cmd.seen[Len(cmd.seen)].opt \in TransformOpts

\* C25: while no argument has failed, the transform sets of the object
\* followed by the set of the open context are the contexts that were given
\* steps, in the order they were opened, each with exactly the steps given
\* while it was open and in argument order; the set of a context is on the
\* object as soon as an argument other than a transform option follows it,
\* and once value_pairs_new_from_cmdline has returned the object
C25_RekeyFlush ==
  (cmd.pc \in {"parsing", "returned"} /\ cmd.success) =>
    LET sets == vp.transforms \o cmd.vpts
        contexts == ContextsFrom(1)
    IN /\ Len(sets) = Len(contexts)
       /\ \A n \in 1..Len(sets) :
            /\ sets[n].id = n
            /\ sets[n].key = contexts[n].key
            /\ sets[n].funcs = contexts[n].funcs
       /\ Len(cmd.vpts) = IF ContextOpenNow THEN 1 ELSE 0

\* C25 witness: the object returned for --rekey, a step, --rekey, another
\* step holds two sets, the first closed by the second --rekey and the
\* second by the end of the arguments
C25_Witness ==
  /\ cmd.pc = "returned" /\ cmd.ret = "vp"
  /\ Len(cmd.seen) = 4
  /\ cmd.seen[1].opt = "rekey" /\ cmd.seen[3].opt = "rekey"
  /\ Len(vp.transforms) = 2
  /\ vp.transforms[1].funcs = << StepOf(cmd.seen[2]) >>
  /\ vp.transforms[2].funcs = << StepOf(cmd.seen[4]) >>
  /\ vp.transforms[1].funcs # vp.transforms[2].funcs

-----------------------------------------------------------------------------
(* Scratch buffers of an evaluation *)

\* C26: a scratch buffer is released at most once and is either released or
\* held by a node of the tree, the tree's nodes hold one buffer each, and
\* once value_pairs_foreach_sorted has returned every buffer acquired was
\* released exactly once, also when a callback stopped the traversal
C26_ScratchBalance ==
  LET ids == 1..sbuf.acq
      released == {sbuf.rel[i] : i \in 1..Len(sbuf.rel)}
      owned == {sbuf.own[k] : k \in DOMAIN sbuf.own}
  IN /\ \A id \in ids : Occurrences(sbuf.rel, id) <= 1
     /\ released \subseteq ids
     /\ owned = ids \ released
     /\ DOMAIN sbuf.own = {scope_set[i].key : i \in 1..Len(scope_set)}
     /\ Cardinality(owned) = Len(scope_set)
     /\ pc = "done" => \A id \in ids : Occurrences(sbuf.rel, id) = 1

\* an evaluation has returned after a callback stopped it before the last
\* node; a buffer was released for an empty rendering, one when a later
\* phase replaced the value of its key, the others with the tree
C26_Witness ==
  /\ pc = "done"
  /\ retval = FALSE
  /\ sbuf.acq > Len(log)
  /\ \E i, j \in 1..Len(log) : i < j /\ log[i].key = log[j].key
  /\ Len(delivered) < Cardinality({log[i].key : i \in 1..Len(log)})
  /\ Len(sbuf.rel) = sbuf.acq

-----------------------------------------------------------------------------
(* Containers of a walk *)

\* the obj_start callbacks of containers made so far
WalkStarts == SelectSeq(walk.events, LAMBDA e : e.kind = "obj_start" /\ e.key # NULL)

\* C21: within one walk no container prefix is passed to obj_start twice
C21_Original ==
  \A i, j \in 1..Len(WalkStarts) : i < j => WalkStarts[i].prefix # WalkStarts[j].prefix

\* the '.'-join of the first n tokens
RECURSIVE JoinTokens(_, _)
JoinTokens(tokens, n) ==
  IF n = 0 THEN <<>>
  ELSE IF n = 1 THEN tokens[1]
  ELSE JoinTokens(tokens, n - 1) \o <<".">> \o tokens[n]

\* C27: every container is started with prefix = parent prefix + '.' + key
\* (its key when it has no parent), and when a value has been delivered the
\* frames of the stack carry, bottom up, the joins of the leading tokens of
\* its key, the stack being no higher than the number of tokens less one
C27_Original ==
  /\ \A i \in 1..Len(WalkStarts) :
       LET e == WalkStarts[i]
       IN e.prefix = IF e.parent = NULL THEN e.key ELSE e.parent \o <<".">> \o e.key
  /\ (pc \in {"foreach", "destroy"} /\ delivered # <<>>) =>
       LET tokens == vp_walker_split_name_to_tokens(delivered[Len(delivered)].name)
       IN /\ Len(walk.stack) <= Len(tokens) - 1
          /\ \A i \in 1..Len(walk.stack) :
               i <= Len(tokens) => walk.stack[i].prefix = JoinTokens(tokens, i)

\* the positions in the events of the container obj_start calls with a prefix
StartsAt(prefix) ==
  {i \in 1..Len(walk.events) :
     walk.events[i].kind = "obj_start" /\ walk.events[i].key # NULL
       /\ walk.events[i].prefix = prefix}

\* C23: a key that begins with '.' has an empty first token
\* ('.SDATA.foo@1.2.3.bar' gives ['', 'SDATA', 'foo@1.2.3', 'bar']); when its
\* value has been delivered the bottom frame of the stack is the container
\* with empty key and empty prefix, started with no parent, and the container
\* of the second token was started after it with the empty prefix as parent
C23_LeadingDot ==
  /\ vp_walker_split_name_to_tokens(
       <<".","S","D","A","T","A",".","f","o","o","@","1",".","2",".","3",".","b","a","r">>)
       = << <<>>, <<"S","D","A","T","A">>, <<"f","o","o","@","1",".","2",".","3">>,
            <<"b","a","r">> >>
  /\ (pc \in {"foreach", "destroy"} /\ delivered # <<>>) =>
       LET name == delivered[Len(delivered)].name
           tokens == vp_walker_split_name_to_tokens(name)
       IN (name # <<>> /\ name[1] = ".") =>
            /\ tokens[1] = <<>>
            /\ JoinTokens(tokens, Len(tokens)) = name
            /\ walk.stack # <<>>
            /\ walk.stack[1] = [key |-> <<>>, prefix |-> <<>>]
            /\ \E i \in StartsAt(<<>>) :
                 /\ walk.events[i].key = <<>>
                 /\ walk.events[i].parent = NULL
                 /\ Len(tokens) > 2 =>
                      \E j \in StartsAt(<<".">> \o tokens[2]) :
                        /\ i < j
                        /\ walk.events[j].key = tokens[2]
                        /\ walk.events[j].parent = <<>>
            /\ WalkValues[Len(WalkValues)].key = tokens[Len(tokens)]

\* the value of '.s.k' was delivered below the containers '' and '.s'
C23_Witness ==
  /\ pc \in {"foreach", "destroy"}
  /\ delivered # <<>>
  /\ delivered[Len(delivered)].name = <<".","s",".","k">>
  /\ Len(walk.stack) = 2
  /\ walk.stack[2].prefix = <<".","s">>
  /\ WalkValues[Len(WalkValues)].prefix = <<".","s">>

-----------------------------------------------------------------------------
(* The tokenizer on its own *)

MaxNameLen == 4

\* the names given to the tokenizer: every string of letters, digits, dots
\* and '@' up to the bound, and the names of the enterprise-id grammar
TokNames ==
  UNION { [1..k -> {"a", "1", ".", "@"}] : k \in 0..MaxNameLen }
    \cup { <<"f","o","o","@","1",".","2",".","3",".","b","a","r">>,
           <<"f","o","o","@","1",".","b","a","r">>,
           <<"f","o","o","@","1","2","3","4">>,
           <<"f","o","o",".","b","a","r">>,
           <<"a",".","b",".","c">>,
           <<"u","s","e","r","@","h","o","s","t">>,
           <<"a","@","1","x">> }

TokInit ==
  /\ Init
  /\ tok = NoTok

\* a name is handed to vp_walker_split_name_to_tokens
Tokenize(name) ==
  /\ ~tok.done
  /\ tok' = [name |-> name, tokens |-> vp_walker_split_name_to_tokens(name),
             done |-> TRUE]
  /\ UNCHANGED <<evalVars, vp, ncalls, walk, prev, refs, scope_log, cmd, dd, sd>>

\* the caller is done with the tokens
TokContinue ==
  /\ tok.done
  /\ tok' = NoTok
  /\ UNCHANGED <<evalVars, vp, ncalls, walk, prev, refs, scope_log, cmd, dd, sd>>

TokNext ==
  \/ \E name \in TokNames : Tokenize(name)
  \/ TokContinue

TokSpec == TokInit /\ [][TokNext]_vars

\* the characters q+1..p of the name continue the enterprise id begun by the
\* '@' at q: digits, and dots that a digit follows
FragChars(name, q, p) ==
  \A k \in (q + 1)..p :
    \/ isdigit(name[k])
    \/ name[k] = "." /\ k < Len(name) /\ isdigit(name[k + 1])

\* the dot at p lies inside an enterprise id
InFragment(name, p) ==
  \E q \in 1..(p - 1) : name[q] = "@" /\ FragChars(name, q, p)

\* the dots that separate tokens
Separators(name) ==
  {p \in 1..Len(name) : name[p] = "." /\ ~InFragment(name, p)}

\* every '@' begins an enterprise id: a digit follows it, and the id runs to
\* the end of the name or to a separating dot; the name does not end in '.'
Regular(name) ==
  /\ name # <<>>
  /\ name[Len(name)] # "."
  /\ \A q \in 1..Len(name) :
       name[q] = "@" =>
         /\ q < Len(name) /\ isdigit(name[q + 1])
         /\ \A p \in (q + 1)..Len(name) :
              (FragChars(name, q, p - 1) /\ ~FragChars(name, q, p)) => name[p] = "."

\* the position in the joined name of the dot after token i
RECURSIVE JoinPos(_, _)
JoinPos(tokens, i) ==
  IF i = 0 THEN 0 ELSE JoinPos(tokens, i - 1) + Len(tokens[i]) + 1

Foo123Bar == <<"f","o","o","@","1",".","2",".","3",".","b","a","r">>
Foo1Bar == <<"f","o","o","@","1",".","b","a","r">>
Foo1234 == <<"f","o","o","@","1","2","3","4">>
FooBar == <<"f","o","o",".","b","a","r">>

\* C22: the tokens of a name are its pieces between the dots that are not
\* inside an enterprise id ('@', digit groups, dots followed by a digit):
\* 'foo@1.2.3.bar' gives [foo@1.2.3, bar], 'foo@1.bar' gives [foo@1, bar],
\* 'foo@1234' gives [foo@1234], 'foo.bar' gives [foo, bar], 'a.b.c' gives
\* [a, b, c]
C22_EnterpriseId ==
  tok.done =>
    /\ tok.name = Foo123Bar =>
         tok.tokens = << <<"f","o","o","@","1",".","2",".","3">>, <<"b","a","r">> >>
    /\ tok.name = Foo1Bar => tok.tokens = << <<"f","o","o","@","1">>, <<"b","a","r">> >>
    /\ tok.name = Foo1234 => tok.tokens = << Foo1234 >>
    /\ tok.name = FooBar => tok.tokens = << <<"f","o","o">>, <<"b","a","r">> >>
    /\ tok.name = <<"a",".","b",".","c">> => tok.tokens = << <<"a">>, <<"b">>, <<"c">> >>
    /\ Regular(tok.name) =>
         /\ Len(tok.tokens) = Cardinality(Separators(tok.name)) + 1
         /\ JoinTokens(tok.tokens, Len(tok.tokens)) = tok.name
         /\ {JoinPos(tok.tokens, i) : i \in 1..(Len(tok.tokens) - 1)} = Separators(tok.name)

\* 'foo@1.2.3.bar' was split in two
C22_Witness ==
  /\ tok.done
  /\ tok.name = Foo123Bar
  /\ Len(tok.tokens) = 2

\* C28: joining the tokens of a name with '.' gives the name back
C28_Original ==
  tok.done => JoinTokens(tok.tokens, Len(tok.tokens)) = tok.name

-----------------------------------------------------------------------------
(* The program drivers: what they share *)

\* bound: the calls and callbacks made on one driver
MaxDriverCalls == 5

\* pipe() fails, fork() fails, or a child is forked
PopenOutcomes == {"ok", "pipe", "fork"}

\* getpgid: the caller's own group for pid 0, the group a live child made
\* for itself with setpgid(0, 0), -1 for a pid that is no process
getpgid(d, pid) ==
  IF pid = 0 THEN 0
  ELSE IF pid \in (1..d.forked) \ d.reaped THEN pid
  ELSE -1

\* _terminate_process_group_by_pid: killpg(pgid, SIGTERM) unless getpgid
\* gave -1; the history keeps the pid asked for and the group found
terminate_process_group_by_pid(d, pid) ==
  [d EXCEPT !.term = Append(@, [pid |-> pid, pgid |-> getpgid(d, pid)])]

\* afprogram_popen: *pid is left alone when pipe() fails, is the -1 of fork()
\* when fork() fails, and is the new child's pid otherwise
afprogram_popen(d, outcome) ==
  CASE outcome = "pipe" -> [d |-> d, ok |-> FALSE]
    [] outcome = "fork" -> [d |-> [d EXCEPT !.pid = -1], ok |-> FALSE]
    [] OTHER -> [d |-> [d EXCEPT !.pid = d.forked + 1, !.forked = @ + 1], ok |-> TRUE]

child_manager_register(d, pid) == [d EXCEPT !.children = @ \cup {pid}]
child_manager_unregister(d, pid) == [d EXCEPT !.children = @ \ {pid}]

\* what a call found and what it left
Snap(d) == [pid |-> d.pid, forked |-> d.forked, nterm |-> Len(d.term),
            children |-> d.children]

-----------------------------------------------------------------------------
(* The program destination driver *)

\* log_pipe_unref on a writer; NULL (0) is let through
log_pipe_unref(d, writer) ==
  IF writer = 0 THEN d ELSE [d EXCEPT !.unrefs = Append(@, writer)]

afprogram_dd_kill_child(d) ==
  IF d.pid # -1
    THEN [terminate_process_group_by_pid(d, d.pid) EXCEPT !.pid = -1]
    ELSE d

afprogram_dd_open_program(d, outcome) ==
  IF d.pid = -1
    THEN LET r == afprogram_popen(d, outcome)
         IN IF ~r.ok THEN r
            ELSE [d |-> child_manager_register(r.d, r.d.pid), ok |-> TRUE]
    ELSE [d |-> child_manager_register(d, d.pid), ok |-> TRUE]

\* afprogram_dd_reopen; log_writer_reopen gives the writer the pipe of the
\* new child
afprogram_dd_reopen(d, outcome) ==
  LET k == afprogram_dd_kill_child([d EXCEPT !.nreopen = @ + 1])
      r == afprogram_dd_open_program(k, outcome)
  IN IF ~r.ok THEN r
     ELSE [d |-> [r.d EXCEPT !.proto = r.d.pid], ok |-> TRUE]

\* variant: afprogram_dd_exit restarting the program for any pid
afprogram_dd_exit_any(d, pid, outcome) ==
  afprogram_dd_reopen([d EXCEPT !.pid = -1], outcome).d

\* afprogram_dd_exit: the child manager's callback for the exit of pid
afprogram_dd_exit(d, pid, outcome) ==
  IF d.pid # -1 /\ d.pid = pid
    THEN afprogram_dd_reopen([d EXCEPT !.pid = -1], outcome).d
    ELSE d

\* afprogram_dd_restore_reload_store_item: cfg_persist_config_fetch takes the
\* item out of the store
afprogram_dd_restore_reload_store_item(d) ==
  LET r == IF d.persist # <<>>
             THEN [child_manager_register(d, d.persist[1].pid)
                     EXCEPT !.pid = d.persist[1].pid,
                            !.writer = d.persist[1].writer,
                            !.persist = <<>>]
             ELSE d
  IN [d |-> r, ok |-> r.writer # 0]

\* afprogram_dd_init; super_ok is what log_dest_driver_init_method returns
\* and writer_ok what log_pipe_init returns for the writer
afprogram_dd_init(d, super_ok, writer_ok, outcome) ==
  LET restored == afprogram_dd_restore_reload_store_item(d)
      w == IF restored.d.writer = 0
             THEN [restored.d EXCEPT !.writer = d.nwriters + 1, !.nwriters = @ + 1]
             ELSE restored.d
  IN IF ~super_ok THEN [d |-> d, ok |-> FALSE]
     ELSE IF ~writer_ok THEN [d |-> log_pipe_unref(w, w.writer), ok |-> FALSE]
     ELSE IF restored.ok THEN [d |-> w, ok |-> TRUE]
     ELSE afprogram_dd_reopen(w, outcome)

afprogram_dd_store_reload_store_item(d) ==
  [d EXCEPT !.persist = << [pid |-> d.pid, writer |-> d.writer] >>]

\* variant: afprogram_dd_deinit taking the branch without keep_alive always
afprogram_dd_deinit_kill(d, deinit_ok) ==
  LET u == child_manager_unregister(d, d.pid)
      k == afprogram_dd_kill_child(u)
  IN [d |-> [log_pipe_unref(k, k.writer) EXCEPT !.writer = 0], ok |-> deinit_ok]

\* deinit_ok is what log_dest_driver_deinit_method returns, which is what
\* afprogram_dd_deinit returns
afprogram_dd_deinit(d, deinit_ok) ==
  LET u == child_manager_unregister(d, d.pid)
      k == afprogram_dd_kill_child(u)
  IN [d |-> IF d.keep_alive
              THEN [afprogram_dd_store_reload_store_item(u) EXCEPT !.writer = 0]
              ELSE [log_pipe_unref(k, k.writer) EXCEPT !.writer = 0],
      ok |-> deinit_ok]

\* afprogram_reload_store_item_destroy_notify: the store gives up an item
\* that no driver fetched
afprogram_reload_store_item_destroy_notify(d) ==
  LET item == d.persist[1]
      u == child_manager_unregister(d, item.pid)
      k == terminate_process_group_by_pid(u, item.pid)
  IN [log_pipe_unref(k, item.writer) EXCEPT !.persist = <<>>]

afprogram_dd_free(d) == log_pipe_unref(d, d.writer)

\* the driver after a call, with the call added to its history
DdCalled(fn, arg, ret, after) ==
  [after EXCEPT !.calls = Append(@, [fn |-> fn, arg |-> arg, ret |-> ret,
                                     keep_alive |-> dd.keep_alive,
                                     writer |-> dd.writer,
                                     writer_after |-> after.writer,
                                     nreopen |-> after.nreopen - dd.nreopen,
                                     before |-> Snap(dd), after |-> Snap(after)])]

DdStep(d) ==
  /\ Len(dd.calls) < MaxDriverCalls
  /\ dd' = d
  /\ UNCHANGED <<vp, ncalls, evalVars, walk, prev, refs, scope_log, cmd, tok, sd>>

\* afprogram_dd_new; keep_alive is set from the configuration
DdNew(keep_alive) ==
  /\ dd.state = "none"
  /\ DdStep(DdCalled("new", "", TRUE,
                     [dd EXCEPT !.state = "new", !.pid = -1, !.writer = 0,
                                !.keep_alive = keep_alive]))

\* log_pipe_init on the driver: init runs on a driver that is not
\* initialized, which it is afterwards when init returned TRUE
DdInit(super_ok, writer_ok, outcome) ==
  /\ dd.state = "new" /\ ~dd.initialized
  /\ LET r == afprogram_dd_init(dd, super_ok, writer_ok, outcome)
     IN DdStep(DdCalled("init", [super_ok |-> super_ok, writer_ok |-> writer_ok],
                        r.ok, [r.d EXCEPT !.initialized = r.ok]))

\* log_pipe_deinit on the driver: deinit runs on an initialized driver, which
\* is down afterwards when deinit returned TRUE; a driver whose deinit
\* returned FALSE is followed no further
DdDeinit(deinit_ok) ==
  /\ dd.state = "new" /\ dd.initialized
  /\ LET r == afprogram_dd_deinit(dd, deinit_ok)
     IN DdStep(DdCalled("deinit", "", r.ok,
                        IF r.ok THEN [r.d EXCEPT !.initialized = FALSE]
                        ELSE [r.d EXCEPT !.state = "failed"]))

\* afprogram_dd_notify, sent by the writer of an initialized driver
DdNotify(notify_code, outcome) ==
  /\ dd.state = "new" /\ dd.initialized
  /\ DdStep(DdCalled("notify", notify_code, TRUE,
                     IF notify_code \in {"NC_CLOSE", "NC_WRITE_ERROR"}
                       THEN afprogram_dd_reopen(dd, outcome).d
                       ELSE dd))

\* a child exits: the child manager calls the callback registered for the
\* pid, if there is one, and drops the registration
DdChildExit(pid, outcome) ==
  /\ dd.state = "new"
  /\ pid \in (1..dd.forked) \ dd.reaped
  /\ LET gone == [dd EXCEPT !.reaped = @ \cup {pid}]
     IN IF pid \in dd.children
          THEN DdStep(DdCalled("exit", pid, TRUE,
                               child_manager_unregister(
                                 afprogram_dd_exit(gone, pid, outcome), pid)))
          ELSE DdStep(DdCalled("reaped", pid, TRUE, gone))

\* the reload store is emptied while the driver is down
DdPersistDestroy ==
  /\ dd.state = "new" /\ ~dd.initialized
  /\ dd.persist # <<>>
  /\ DdStep(DdCalled("destroy_notify", "", TRUE,
                     afprogram_reload_store_item_destroy_notify(dd)))

\* the last reference to a driver that is down is dropped; the child manager
\* holds one for every registration
DdFree ==
  /\ dd.state = "new" /\ ~dd.initialized
  /\ dd.children = {}
  /\ DdStep(DdCalled("free", "", TRUE, [afprogram_dd_free(dd) EXCEPT !.state = "freed"]))

DdNext ==
  \/ \E keep_alive \in BOOLEAN : DdNew(keep_alive)
  \/ \E super_ok, writer_ok \in BOOLEAN, outcome \in PopenOutcomes :
       DdInit(super_ok, writer_ok, outcome)
  \/ \E deinit_ok \in BOOLEAN : DdDeinit(deinit_ok)
  \/ \E notify_code \in {"NC_CLOSE", "NC_WRITE_ERROR", "NC_FILE_MOVED"},
        outcome \in PopenOutcomes : DdNotify(notify_code, outcome)
  \/ \E pid \in 1..MaxDriverCalls, outcome \in PopenOutcomes : DdChildExit(pid, outcome)
  \/ DdPersistDestroy
  \/ DdFree

DdSpec == Init /\ [][DdNext]_vars

-----------------------------------------------------------------------------
(* Properties of the program destination driver *)

DdCalls(fn) == {i \in 1..Len(dd.calls) : dd.calls[i].fn = fn}

\* the exit callback number i was for the child the driver tracked
CurrentExit(i) ==
  dd.calls[i].before.pid # -1 /\ dd.calls[i].arg = dd.calls[i].before.pid

\* C31: an exit callback for a pid that is not the driver's pid, or made
\* while the pid is -1, forks nothing, signals nothing, reopens nothing and
\* leaves the pid; the callback for the current pid reopens once, signals
\* nothing, and leaves the pid of the child it forked or -1
C31_StaleExit ==
  \A i \in DdCalls("exit") :
    LET e == dd.calls[i]
    IN /\ e.after.nterm = e.before.nterm
       /\ ~CurrentExit(i) =>
            /\ e.after.pid = e.before.pid
            /\ e.after.forked = e.before.forked
            /\ e.nreopen = 0
       /\ CurrentExit(i) =>
            /\ e.nreopen = 1
            /\ e.after.pid \in {-1, e.before.forked + 1}
            /\ e.after.pid = -1 <=> e.after.forked = e.before.forked

\* C31 witness: after a notification restarted the program the exit of the
\* killed child was reported and left the new child alone, and the exit of
\* the new child then started a third
C31_Witness ==
  \E n \in DdCalls("notify"), i, j \in DdCalls("exit") :
    /\ n < i /\ i < j
    /\ ~CurrentExit(i) /\ dd.calls[i].before.pid = 2 /\ dd.calls[i].arg = 1
    /\ CurrentExit(j) /\ dd.calls[j].arg = 2 /\ dd.calls[j].after.pid = 3

\* call i is the deinit of a keep_alive driver, which returned TRUE, and call
\* i + 1 the init that follows it, past log_dest_driver_init_method
Reload(i) ==
  /\ i \in DdCalls("deinit") /\ dd.calls[i].keep_alive /\ dd.calls[i].ret
  /\ i + 1 \in DdCalls("init") /\ dd.calls[i + 1].arg.super_ok

\* C32: over the deinit of a keep_alive driver and the init that follows it
\* no TERM signal is sent and nothing is forked; deinit takes the child out
\* of the child manager, and after init the driver has the pid and the
\* writer it had before deinit, the pid is registered again, and init
\* returned TRUE if the writer could be initialised
C32_KeepAliveReload ==
  \A i \in 1..Len(dd.calls) :
    Reload(i) =>
      LET down == dd.calls[i]
          up == dd.calls[i + 1]
      IN /\ up.after.nterm = down.before.nterm
         /\ up.after.forked = down.before.forked
         /\ down.nreopen = 0 /\ up.nreopen = 0
         /\ down.before.pid \notin down.after.children
         /\ up.after.pid = down.before.pid
         /\ up.writer_after = down.writer
         /\ up.after.pid \in up.after.children
         /\ up.arg.writer_ok => up.ret

\* C32 witness: a keep_alive driver with a running child was taken down and
\* brought up again, and tracks that child
C32_Witness ==
  \E i \in 1..Len(dd.calls) :
    /\ Reload(i)
    /\ dd.calls[i].before.pid = 1
    /\ dd.calls[i].before.children = {1}
    /\ dd.calls[i + 1].ret
    /\ dd.pid = 1 /\ dd.writer = 1 /\ dd.initialized

\* C33: whenever afprogram_dd_init returned TRUE the driver tracks a child
\* it spawned, its pid is not -1
C33_Original ==
  \A i \in DdCalls("init") : dd.calls[i].ret => dd.calls[i].after.pid # -1

\* C34: no writer reference of the driver is released twice, and after an
\* init that failed on the writer the driver holds no writer
C34_Original ==
  /\ \A m, n \in 1..Len(dd.unrefs) : m # n => dd.unrefs[m] # dd.unrefs[n]
  /\ \A i \in DdCalls("init") :
       (dd.calls[i].arg.super_ok /\ ~dd.calls[i].arg.writer_ok) =>
         dd.calls[i].writer_after = 0

-----------------------------------------------------------------------------
(* The program source driver *)

afprogram_sd_kill_child(d) ==
  IF d.pid # -1
    THEN [terminate_process_group_by_pid(d, d.pid) EXCEPT !.pid = -1]
    ELSE d

\* afprogram_sd_exit: the child manager's callback for the exit of pid
afprogram_sd_exit(d, pid) ==
  IF d.pid # -1 /\ d.pid = pid THEN [d EXCEPT !.pid = -1] ELSE d

\* afprogram_sd_init; super_ok is what log_src_driver_init_method returns and
\* reader_ok what log_pipe_init returns for the reader
afprogram_sd_init(d, super_ok, outcome, reader_ok) ==
  LET r == afprogram_popen(d, outcome)
      c == child_manager_register(r.d, r.d.pid)
      n == IF c.reader = 0
             THEN [c EXCEPT !.reader = c.nreaders + 1, !.nreaders = @ + 1]
             ELSE c
  IN IF ~super_ok THEN [d |-> d, ok |-> FALSE]
     ELSE IF ~r.ok THEN r
     ELSE IF ~reader_ok THEN [d |-> [n EXCEPT !.reader = 0], ok |-> FALSE]
     ELSE [d |-> n, ok |-> TRUE]

\* afprogram_sd_deinit; deinit_ok is what log_src_driver_deinit_method
\* returns: FALSE makes afprogram_sd_deinit return FALSE, after the child
\* was killed and the reader released
afprogram_sd_deinit(d, deinit_ok) ==
  [d |-> [afprogram_sd_kill_child(d) EXCEPT !.reader = 0],
   ok |-> IF ~deinit_ok THEN FALSE ELSE TRUE]

\* afprogram_sd_notify: deinit and init again on NC_CLOSE and NC_READ_ERROR,
\* whatever the two return
afprogram_sd_notify(d, notify_code, deinit_ok, super_ok, outcome, reader_ok) ==
  IF notify_code \in {"NC_CLOSE", "NC_READ_ERROR"}
    THEN afprogram_sd_init(afprogram_sd_deinit(d, deinit_ok).d,
                           super_ok, outcome, reader_ok).d
    ELSE d

SdCalled(fn, arg, ret, after) ==
  [after EXCEPT !.calls = Append(@, [fn |-> fn, arg |-> arg, ret |-> ret,
                                     before |-> Snap(sd), after |-> Snap(after)])]

SdStep(d) ==
  /\ Len(sd.calls) < MaxDriverCalls
  /\ sd' = d
  /\ UNCHANGED <<vp, ncalls, evalVars, walk, prev, refs, scope_log, cmd, tok, dd>>

\* afprogram_sd_new: g_new0 leaves pid 0 and reader NULL
SdNew ==
  /\ sd.state = "none"
  /\ SdStep(SdCalled("new", "", TRUE,
                     [sd EXCEPT !.state = "new", !.pid = 0, !.reader = 0]))

SdInit(super_ok, outcome, reader_ok) ==
  /\ sd.state = "new"
  /\ LET r == afprogram_sd_init(sd, super_ok, outcome, reader_ok)
     IN SdStep(SdCalled("init", outcome, r.ok, r.d))

SdDeinit(deinit_ok) ==
  /\ sd.state = "new"
  /\ LET r == afprogram_sd_deinit(sd, deinit_ok)
     IN SdStep(SdCalled("deinit", "", r.ok, r.d))

SdNotify(notify_code, deinit_ok, super_ok, outcome, reader_ok) ==
  /\ sd.state = "new"
  /\ SdStep(SdCalled("notify", notify_code, TRUE,
                     afprogram_sd_notify(sd, notify_code, deinit_ok, super_ok,
                                         outcome, reader_ok)))

\* a child exits: the child manager calls the callback registered for the
\* pid and drops the registration
SdChildExit(pid) ==
  /\ sd.state = "new"
  /\ pid \in (1..sd.forked) \ sd.reaped
  /\ LET gone == [sd EXCEPT !.reaped = @ \cup {pid}]
     IN IF pid \in sd.children
          THEN SdStep(SdCalled("exit", pid, TRUE,
                               child_manager_unregister(afprogram_sd_exit(gone, pid), pid)))
          ELSE SdStep(SdCalled("reaped", pid, TRUE, gone))

SdNext ==
  \/ SdNew
  \/ \E super_ok, reader_ok \in BOOLEAN, outcome \in PopenOutcomes :
       SdInit(super_ok, outcome, reader_ok)
  \/ \E deinit_ok \in BOOLEAN : SdDeinit(deinit_ok)
  \/ \E notify_code \in {"NC_CLOSE", "NC_READ_ERROR", "NC_FILE_MOVED"},
        deinit_ok, super_ok, reader_ok \in BOOLEAN, outcome \in PopenOutcomes :
       SdNotify(notify_code, deinit_ok, super_ok, outcome, reader_ok)
  \/ \E pid \in 1..MaxDriverCalls : SdChildExit(pid)

SdSpec == Init /\ [][SdNext]_vars

\* C35: every TERM signal of the source driver is asked for a pid that a
\* fork of this driver returned and whose exit has not been reported, so it
\* goes to that child's process group; none is asked for pid 0, whose group
\* is the daemon's own
C35_Original ==
  \A i \in 1..Len(sd.term) :
    /\ sd.term[i].pid # 0
    /\ sd.term[i].pid \in 1..sd.forked
    /\ sd.term[i].pgid = sd.term[i].pid

====
